---- MODULE Spec2Model ----
(***************************************************************************)
(* Temporal geometry engine of the timeline viewer: the extended date      *)
(* codec (lib/dates.ts), the bounds calculator (utils/bounds.ts), the      *)
(* stacking layout engine (utils/layout.ts) and the viewport controller    *)
(* (hooks/useTimelineViewport.ts).                                         *)
(*                                                                         *)
(* JavaScript numbers are modelled as exact rationals <<n, d>> with d > 0  *)
(* and gcd(n, d) = 1; IEEE rounding is not modelled.  Date strings are     *)
(* sequences of one-character strings, so that parsing and formatting are  *)
(* computed character by character as the code does.                       *)
(***************************************************************************)
EXTENDS Integers, Sequences, FiniteSets, TLC

\* ------------------------------------------------------------------------
\* JavaScript number arithmetic, as exact rationals
\* ------------------------------------------------------------------------

Abs(i) == IF i < 0 THEN -i ELSE i

\* Euclid's algorithm, two steps at a time
RECURSIVE GCD(_, _)
GCD(a, b) ==
    IF b = 0 THEN a
    ELSE IF a % b = 0 THEN b
    ELSE GCD(a % b, b % (a % b))

\* the rational n / d in lowest terms, with a positive denominator
Q(n, d) ==
    LET g == GCD(Abs(n), Abs(d))
        s == IF d < 0 THEN -1 ELSE 1
    IN  <<(s * n) \div g, (s * d) \div g>>

I(n) == <<n, 1>>

RNeg(a) == <<-a[1], a[2]>>

\* over the least common denominator
RAdd(a, b) ==
    IF a[2] = b[2] THEN Q(a[1] + b[1], a[2])
    ELSE LET g == GCD(a[2], b[2])
             l == (a[2] \div g) * b[2]
         IN  Q(a[1] * (l \div a[2]) + b[1] * (l \div b[2]), l)

RSub(a, b) == RAdd(a, RNeg(b))

\* common factors are cancelled before the products are taken
RMul(a, b) ==
    IF a[1] = 0 \/ b[1] = 0 THEN I(0)
    ELSE LET g1 == GCD(Abs(a[1]), b[2])
             g2 == GCD(Abs(b[1]), a[2])
         IN  Q((a[1] \div g1) * (b[1] \div g2), (a[2] \div g2) * (b[2] \div g1))

\* a / b for b # 0
RDiv(a, b) == RMul(a, Q(b[2], b[1]))

RLt(a, b) == RSub(a, b)[1] < 0
RLe(a, b) == RSub(a, b)[1] <= 0
RGt(a, b) == RLt(b, a)
RGe(a, b) == RLe(b, a)

\* Math.min, Math.max, Math.abs, Math.floor, Math.ceil
RMin(a, b) == IF RLt(b, a) THEN b ELSE a
RMax(a, b) == IF RGt(b, a) THEN b ELSE a
RAbs(a) == <<Abs(a[1]), a[2]>>
RFloor(a) == I(a[1] \div a[2])
RCeil(a) == I(-((-a[1]) \div a[2]))

\* ------------------------------------------------------------------------
\* JavaScript strings, as sequences of characters
\* ------------------------------------------------------------------------

Digits == <<"0", "1", "2", "3", "4", "5", "6", "7", "8", "9">>

DigitVal(c) == CHOOSE i \in 0..9 : Digits[i + 1] = c

\* Number(s) for a string of decimal digits
RECURSIVE NumberOf(_)
NumberOf(s) ==
    IF Len(s) = 0 THEN 0
    ELSE 10 * NumberOf(SubSeq(s, 1, Len(s) - 1)) + DigitVal(s[Len(s)])

\* String(n) for an integer n >= 0
RECURSIVE StringOf(_)
StringOf(n) ==
    IF n < 10 THEN <<Digits[n + 1]>>
    ELSE StringOf(n \div 10) \o <<Digits[(n % 10) + 1]>>

\* s.padStart(w, '0')
RECURSIVE PadStart(_, _)
PadStart(s, w) == IF Len(s) >= w THEN s ELSE PadStart(<<"0">> \o s, w)

\* s.includes(c)
Includes(s, c) == \E i \in 1..Len(s) : s[i] = c

\* s.split(c)
RECURSIVE Split(_, _)
Split(s, c) ==
    IF ~Includes(s, c) THEN <<s>>
    ELSE LET i == CHOOSE k \in 1..Len(s) :
                    s[k] = c /\ \A j \in 1..(k - 1) : s[j] # c
         IN  <<SubSeq(s, 1, i - 1)>> \o Split(SubSeq(s, i + 1, Len(s)), c)

\* s.replace(c, '') : removes the first occurrence of c
Remove(s, c) ==
    IF ~Includes(s, c) THEN s
    ELSE LET i == CHOOSE k \in 1..Len(s) :
                    s[k] = c /\ \A j \in 1..(k - 1) : s[j] # c
         IN  SubSeq(s, 1, i - 1) \o SubSeq(s, i + 1, Len(s))

\* xs.map(Number)
MapNumber(xs) == [i \in 1..Len(xs) |-> NumberOf(xs[i])]

\* ------------------------------------------------------------------------
\* Extended date codec (lib/dates.ts)
\* ------------------------------------------------------------------------

\* ParsedDate values that carry the fields of their precision
YearDate(y) == [year |-> y, precision |-> "year"]
MonthDate(y, m) == [year |-> y, month |-> m, precision |-> "month"]
DayDate(y, m, d) == [year |-> y, month |-> m, day |-> d, precision |-> "day"]
DateTime(y, m, d, h, mi, sec) ==
    [year |-> y, month |-> m, day |-> d, hour |-> h, minute |-> mi, second |-> sec,
     precision |-> "datetime"]

\* JavaScript truthiness of an optional numeric field: absent and 0 are falsy
Truthy(rec, f) == f \in DOMAIN rec /\ rec[f] # 0

\* rec.f || dflt
OrElse(rec, f, dflt) == IF Truthy(rec, f) THEN rec[f] ELSE dflt

parseExtendedDate(dateStr) ==
    LET isNegative == Len(dateStr) > 0 /\ dateStr[1] = "-"
        normalized == IF isNegative THEN SubSeq(dateStr, 2, Len(dateStr)) ELSE dateStr
        sign == IF isNegative THEN -1 ELSE 1
    IN  IF Includes(normalized, "T")
        THEN LET halves == Split(normalized, "T")
                 dateComponents == MapNumber(Split(halves[1], "-"))
                 timeComponents == MapNumber(Split(Remove(halves[2], "Z"), ":"))
             IN  [year |-> sign * dateComponents[1],
                  month |-> dateComponents[2],
                  day |-> dateComponents[3],
                  hour |-> timeComponents[1],
                  minute |-> timeComponents[2],
                  second |-> IF Len(timeComponents) >= 3 /\ timeComponents[3] # 0
                             THEN timeComponents[3] ELSE 0,
                  precision |-> "datetime"]
        ELSE LET parts == MapNumber(Split(normalized, "-"))
             IN  IF Len(parts) = 1
                 THEN [year |-> sign * parts[1], precision |-> "year"]
                 ELSE IF Len(parts) = 2
                 THEN [year |-> sign * parts[1], month |-> parts[2],
                       precision |-> "month"]
                 ELSE [year |-> sign * parts[1], month |-> parts[2],
                       day |-> parts[3], precision |-> "day"]

\* formatExtendedDate writing the year without its sign
formatUnsigned(date) ==
    LET yearStr == PadStart(StringOf(Abs(date.year)), 4)
        monthStr == PadStart(StringOf(OrElse(date, "month", 1)), 2)
        dayStr == PadStart(StringOf(OrElse(date, "day", 1)), 2)
        hourStr == PadStart(StringOf(OrElse(date, "hour", 0)), 2)
        minStr == PadStart(StringOf(OrElse(date, "minute", 0)), 2)
        secStr == PadStart(StringOf(OrElse(date, "second", 0)), 2)
    IN  IF date.precision = "year" THEN yearStr
        ELSE IF date.precision = "month" THEN yearStr \o <<"-">> \o monthStr
        ELSE IF date.precision = "day"
        THEN yearStr \o <<"-">> \o monthStr \o <<"-">> \o dayStr
        ELSE yearStr \o <<"-">> \o monthStr \o <<"-">> \o dayStr \o <<"T">>
             \o hourStr \o <<":">> \o minStr \o <<":">> \o secStr \o <<"Z">>

formatExtendedDate(date) ==
    LET yearStr == IF date.year < 0
                   THEN <<"-">> \o PadStart(StringOf(Abs(date.year)), 4)
                   ELSE PadStart(StringOf(date.year), 4)
        monthStr == PadStart(StringOf(OrElse(date, "month", 1)), 2)
        dayStr == PadStart(StringOf(OrElse(date, "day", 1)), 2)
        hourStr == PadStart(StringOf(OrElse(date, "hour", 0)), 2)
        minStr == PadStart(StringOf(OrElse(date, "minute", 0)), 2)
        secStr == PadStart(StringOf(OrElse(date, "second", 0)), 2)
    IN  IF date.precision = "year" THEN yearStr
        ELSE IF date.precision = "month" THEN yearStr \o <<"-">> \o monthStr
        ELSE IF date.precision = "day"
        THEN yearStr \o <<"-">> \o monthStr \o <<"-">> \o dayStr
        ELSE yearStr \o <<"-">> \o monthStr \o <<"-">> \o dayStr \o <<"T">>
             \o hourStr \o <<":">> \o minStr \o <<":">> \o secStr \o <<"Z">>

\* dateToNumericValue once dateStr is parsed
numericValue(parsed) ==
    LET v0 == I(parsed.year)
        v1 == RAdd(v0, Q(parsed.month - 1, 12))
        v2 == RAdd(v1, Q(parsed.day - 1, 365))
        v3 == RAdd(v2, RDiv(RAdd(I(parsed.hour), Q(OrElse(parsed, "minute", 0), 60)),
                            I(365 * 24)))
    IN  IF ~Truthy(parsed, "month") THEN v0
        ELSE IF ~Truthy(parsed, "day") THEN v1
        ELSE IF "hour" \notin DOMAIN parsed THEN v2
        ELSE v3

dateToNumericValue(dateStr) == numericValue(parseExtendedDate(dateStr))

\* dateToNumericValue(a) - dateToNumericValue(b)
compareDates(a, b) == RSub(dateToNumericValue(a), dateToNumericValue(b))

\* dates.reduce((min, date) => (compareDates(date, min) < 0 ? date : min)):
\* a later date replaces the minimum only when it is strictly earlier, so the
\* result is the first of the earliest dates
ReduceMin(dates) ==
    dates[CHOOSE i \in 1..Len(dates) :
              /\ \A j \in 1..Len(dates) : compareDates(dates[j], dates[i])[1] >= 0
              /\ \A j \in 1..(i - 1) : compareDates(dates[j], dates[i])[1] > 0]

\* dates.reduce((max, date) => (compareDates(date, max) > 0 ? date : max)):
\* the first of the latest dates
ReduceMax(dates) ==
    dates[CHOOSE i \in 1..Len(dates) :
              /\ \A j \in 1..Len(dates) : compareDates(dates[j], dates[i])[1] <= 0
              /\ \A j \in 1..(i - 1) : compareDates(dates[j], dates[i])[1] < 0]

\* the value of an absent result (undefined, null)
Null == [null |-> TRUE]

\* an absent date string (undefined): falsy, as the empty string is
NoDate == <<>>

\* !dateStr
Falsy(dateStr) == Len(dateStr) = 0

getMinDate(dates) == IF Len(dates) = 0 THEN NoDate ELSE ReduceMin(dates)

getMaxDate(dates) == IF Len(dates) = 0 THEN NoDate ELSE ReduceMax(dates)

\* numericValueToDate(value, precision)
numericValueToDate(value, precision) ==
    LET year == RFloor(value)[1]
        remainder == RSub(value, I(year))
        month == RFloor(RMul(remainder, I(12)))[1] + 1
        dayFraction == RMul(RSub(RMul(remainder, I(12)), I(month - 1)), I(30))
        dayRaw == RFloor(dayFraction)[1] + 1
        day == IF dayRaw > 28 THEN 28 ELSE IF dayRaw < 1 THEN 1 ELSE dayRaw
    IN  IF precision = "year" THEN formatExtendedDate([year |-> year, precision |-> "year"])
        ELSE IF precision = "month"
        THEN formatExtendedDate([year |-> year, month |-> month, precision |-> "month"])
        ELSE formatExtendedDate([year |-> year, month |-> month, day |-> day,
                                 precision |-> "day"])

\* ------------------------------------------------------------------------
\* Bounds calculator (features/timeline/utils/bounds.ts)
\* ------------------------------------------------------------------------

\* getSnapUnit without the branch of the decade
getSnapUnitNoDecade(rangeDuration) ==
    LET absDuration == RAbs(rangeDuration)
    IN  IF RLt(absDuration, Q(1, 12)) THEN "day"
        ELSE IF RLt(absDuration, I(1)) THEN "month"
        ELSE IF RLt(absDuration, I(100)) THEN "year"
        ELSE IF RLt(absDuration, I(1000)) THEN "century"
        ELSE "millennium"

getSnapUnit(rangeDuration) ==
    LET absDuration == RAbs(rangeDuration)
    IN  IF RLt(absDuration, Q(1, 12)) THEN "day"
        ELSE IF RLt(absDuration, I(1)) THEN "month"
        ELSE IF RLt(absDuration, I(10)) THEN "year"
        ELSE IF RLt(absDuration, I(100)) THEN "decade"
        ELSE IF RLt(absDuration, I(1000)) THEN "century"
        ELSE "millennium"

\* roundFn with the direction ignored: Math.floor for both ends
roundFnAlwaysFloor(direction, value) == RFloor(value)

\* direction === 'floor' ? Math.floor : Math.ceil
roundFn(direction, value) == IF direction = "floor" THEN RFloor(value) ELSE RCeil(value)

\* snapToUnit taking the default branch, whole years, for every unit
snapToWholeYear(value, unit, direction) == roundFn(direction, value)

\* roundFn(value * k) / k  and  roundFn(value / k) * k
snapToUnit(value, unit, direction) ==
    CASE unit = "day" -> RDiv(roundFn(direction, RMul(value, I(365))), I(365))
      [] unit = "month" -> RDiv(roundFn(direction, RMul(value, I(12))), I(12))
      [] unit = "year" -> roundFn(direction, value)
      [] unit = "decade" -> RMul(roundFn(direction, RDiv(value, I(10))), I(10))
      [] unit = "century" -> RMul(roundFn(direction, RDiv(value, I(100))), I(100))
      [] unit = "millennium" -> RMul(roundFn(direction, RDiv(value, I(1000))), I(1000))
      [] OTHER -> roundFn(direction, value)

\* a number used as the year of a date: the snapped values of the year,
\* decade, century and millennium branches are whole numbers
YearOf(value) == CASE value[2] = 1 -> value[1]

snapValueToDateString(value, unit, direction) ==
    LET year == RFloor(value)[1]
        fraction == RSub(value, I(year))
        month == RFloor(RMul(fraction, I(12)))[1] + 1
        nextMonth == month + 1
        dayFraction == RMul(RSub(RMul(fraction, I(12)), I(month - 1)), I(30))
        dayRaw == RFloor(dayFraction)[1] + 1
        day == IF dayRaw > 28 THEN 28 ELSE IF dayRaw < 1 THEN 1 ELSE dayRaw
        Ymd(y, m, d) == formatExtendedDate([year |-> y, month |-> m, day |-> d,
                                            precision |-> "day"])
    IN  CASE unit = "month" ->
                IF direction = "start" THEN Ymd(year, IF month < 1 THEN 1 ELSE month, 1)
                ELSE IF nextMonth > 12 THEN Ymd(year + 1, 1, 1)
                ELSE Ymd(year, nextMonth, 1)
          [] unit = "day" -> Ymd(year, month, day)
          [] unit = "year" ->
                IF direction = "start" THEN Ymd(YearOf(value), 1, 1)
                ELSE Ymd(YearOf(value), 12, 31)
          [] unit \in {"decade", "century", "millennium"} ->
                IF direction = "start" THEN Ymd(YearOf(value), 1, 1)
                ELSE Ymd(YearOf(value) - 1, 12, 31)
          [] OTHER -> formatExtendedDate([year |-> YearOf(value), precision |-> "year"])

\* if (event.endDate) : an absent or empty endDate is falsy
HasEndDate(event) == "endDate" \in DOMAIN event /\ Len(event.endDate) > 0

\* every startDate and every present endDate, in event order
RECURSIVE CollectDates(_)
CollectDates(events) ==
    IF Len(events) = 0 THEN <<>>
    ELSE (IF HasEndDate(Head(events))
          THEN <<Head(events).startDate, Head(events).endDate>>
          ELSE <<Head(events).startDate>>) \o CollectDates(Tail(events))

\* the element of a set of one element; in The({e : x \in {v}}) the value v
\* is computed first and e is computed from it, as statements run in order
The(S) == CHOOSE x \in S : TRUE

\* calculateTimelineBounds from paddedRange on: the snap unit, the snapped
\* values and the date strings made of them
snappedBounds(dataStart, dataEnd, paddedStart, paddedEnd) ==
    LET paddedRange == RSub(paddedEnd, paddedStart)
        snapUnit == getSnapUnit(paddedRange)
        snappedStart == snapToUnit(paddedStart, snapUnit, "floor")
        snappedEnd == snapToUnit(paddedEnd, snapUnit, "ceil")
    IN  [dataStart |-> dataStart,
         dataEnd |-> dataEnd,
         viewStart |-> snapValueToDateString(snappedStart, snapUnit, "start"),
         viewEnd |-> snapValueToDateString(snappedEnd, snapUnit, "end"),
         snapUnit |-> snapUnit]

\* paddedBounds with the padding of 5% alone, without its minimum of 0.1 year
paddedBoundsFivePercent(dataStart, dataEnd, startValue, endValue) ==
    LET padding == RMul(RSub(endValue, startValue), Q(5, 100))
    IN  The({snappedBounds(dataStart, dataEnd, paddedStart, paddedEnd) :
                paddedStart \in {RSub(startValue, padding)},
                paddedEnd \in {RAdd(endValue, padding)}})

\* calculateTimelineBounds from range on: the padding and the padded values
paddedBounds(dataStart, dataEnd, startValue, endValue) ==
    LET range == RSub(endValue, startValue)
        padding == RMax(RMul(range, Q(5, 100)), Q(1, 10))
    IN  The({snappedBounds(dataStart, dataEnd, paddedStart, paddedEnd) :
                paddedStart \in {RSub(startValue, padding)},
                paddedEnd \in {RAdd(endValue, padding)}})

\* calculateTimelineBounds giving up on a list whose dates are one instant
boundsUnlessInstant(events) ==
    IF Len(events) = 0 THEN Null
    ELSE LET allDates == CollectDates(events)
             dataStart == getMinDate(allDates)
             dataEnd == getMaxDate(allDates)
         IN  IF Falsy(dataStart) \/ Falsy(dataEnd) \/ dataStart = dataEnd THEN Null
             ELSE The({paddedBounds(dataStart, dataEnd, startValue, endValue) :
                          startValue \in {dateToNumericValue(dataStart)},
                          endValue \in {dateToNumericValue(dataEnd)}})

calculateTimelineBounds(events) ==
    IF Len(events) = 0 THEN Null
    ELSE LET allDates == CollectDates(events)
             dataStart == getMinDate(allDates)
             dataEnd == getMaxDate(allDates)
         IN  IF Falsy(dataStart) \/ Falsy(dataEnd) THEN Null
             ELSE The({paddedBounds(dataStart, dataEnd, startValue, endValue) :
                          startValue \in {dateToNumericValue(dataStart)},
                          endValue \in {dateToNumericValue(dataEnd)}})

\* positionInRange putting every date of a window of zero width at its left
positionLeftWhenEmpty(value, startValue, endValue) ==
    LET range == RSub(endValue, startValue)
    IN  IF range = I(0) THEN I(0)
        ELSE RDiv(RSub(value, startValue), range)

\* getDatePosition once the three dates are converted to numbers
positionInRange(value, startValue, endValue) ==
    LET range == RSub(endValue, startValue)
    IN  IF range = I(0) THEN Q(1, 2)
        ELSE RDiv(RSub(value, startValue), range)

getDatePosition(date, bounds) ==
    positionInRange(dateToNumericValue(date),
                    dateToNumericValue(bounds.viewStart),
                    dateToNumericValue(bounds.viewEnd))

\* getDateRangeWidth adding the two positions instead of subtracting them
widthOfSum(startDate, endDate, bounds) ==
    RAbs(RAdd(getDatePosition(endDate, bounds), getDatePosition(startDate, bounds)))

getDateRangeWidth(startDate, endDate, bounds) ==
    RAbs(RSub(getDatePosition(endDate, bounds), getDatePosition(startDate, bounds)))

DEFAULT_MAX_TICKS == 15

\* the switch on bounds.snapUnit: the tick interval
tickIntervalOf(snapUnit, range, maxTicks) ==
    CASE snapUnit = "day" -> RDiv(RCeil(RDiv(RMul(range, I(365)), I(maxTicks))), I(365))
      [] snapUnit = "month" -> RDiv(RCeil(RDiv(RMul(range, I(12)), I(maxTicks))), I(12))
      [] snapUnit = "year" -> RCeil(RDiv(range, I(maxTicks)))
      [] snapUnit = "decade" -> RMul(RCeil(RDiv(RDiv(range, I(maxTicks)), I(10))), I(10))
      [] snapUnit = "century" -> RMul(RCeil(RDiv(RDiv(range, I(maxTicks)), I(100))), I(100))
      [] snapUnit = "millennium" ->
             RMul(RCeil(RDiv(RDiv(range, I(maxTicks)), I(1000))), I(1000))
      [] OTHER -> I(1)

\* the switch on bounds.snapUnit: the precision of the labels
labelPrecisionOf(snapUnit) ==
    CASE snapUnit = "day" -> "day"
      [] snapUnit = "month" -> "month"
      [] OTHER -> "year"

monthNames ==
    << <<"J", "a", "n">>, <<"F", "e", "b">>, <<"M", "a", "r">>, <<"A", "p", "r">>,
       <<"M", "a", "y">>, <<"J", "u", "n">>, <<"J", "u", "l">>, <<"A", "u", "g">>,
       <<"S", "e", "p">>, <<"O", "c", "t">>, <<"N", "o", "v">>, <<"D", "e", "c">> >>

tickLabel(parsed, labelPrecision) ==
    IF labelPrecision = "year"
    THEN IF parsed.year < 0 THEN StringOf(Abs(parsed.year)) \o <<" ", "B", "C", "E">>
         ELSE StringOf(Abs(parsed.year))
    ELSE IF labelPrecision = "month"
    THEN monthNames[OrElse(parsed, "month", 1)] \o <<" ">> \o StringOf(Abs(parsed.year))
    ELSE StringOf(parsed.month) \o <<"/">> \o StringOf(parsed.day)

\* one turn of the loop: the tick pushed for value
tickAt(value, labelPrecision) ==
    The({[value |-> value, label |-> tickLabel(parseExtendedDate(dateStr), labelPrecision),
          dateStr |-> dateStr] : dateStr \in {numericValueToDate(value, labelPrecision)}})

\* the number that a division of zero by zero, or a product of an infinity and
\* zero, gives
NaN == <<0, 0>>

\* value <= endValue, which is false for NaN
lessOrEqual(value, endValue) == value # NaN /\ RLe(value, endValue)

\* for (let value = ...; value <= endValue; value += tickInterval)
RECURSIVE ticksFrom(_, _, _, _)
ticksFrom(value, endValue, tickInterval, labelPrecision) ==
    IF lessOrEqual(value, endValue)
    THEN <<tickAt(value, labelPrecision)>>
             \o ticksFrom(RAdd(value, tickInterval), endValue, tickInterval, labelPrecision)
    ELSE <<>>

\* firstTick rounded down instead of up
firstTickBelow(startValue, tickInterval) ==
    RMul(RFloor(RDiv(startValue, tickInterval)), tickInterval)

\* firstTick taking startValue where the tick interval is 0
firstTickOrStart(startValue, tickInterval) ==
    IF tickInterval = I(0) THEN startValue
    ELSE RMul(RCeil(RDiv(startValue, tickInterval)), tickInterval)

\* Math.ceil(startValue / tickInterval) * tickInterval; with tickInterval 0 the
\* quotient is an infinity, or NaN for startValue 0, and the product is NaN
firstTick(startValue, tickInterval) ==
    IF tickInterval = I(0) THEN NaN
    ELSE RMul(RCeil(RDiv(startValue, tickInterval)), tickInterval)

generateAxisTicks(bounds, maxTicks) ==
    The({ticksFrom(firstTick(startValue, tickInterval), endValue, tickInterval,
                   labelPrecisionOf(bounds.snapUnit)) :
            <<startValue, endValue, tickInterval>> \in
                {<<startValue, endValue,
                   tickIntervalOf(bounds.snapUnit, RSub(endValue, startValue), maxTicks)>> :
                    startValue \in {dateToNumericValue(bounds.viewStart)},
                    endValue \in {dateToNumericValue(bounds.viewEnd)}}})

\* generateAxisTicks up to the loop: the locals of the call
tickLocals(bounds, maxTicks) ==
    The({[op |-> "generateAxisTicks",
          startValue |-> startValue,
          endValue |-> endValue,
          tickInterval |-> tickInterval,
          labelPrecision |-> labelPrecisionOf(bounds.snapUnit),
          value |-> firstTick(startValue, tickInterval),
          ticks |-> <<>>] :
            <<startValue, endValue, tickInterval>> \in
                {<<startValue, endValue,
                   tickIntervalOf(bounds.snapUnit, RSub(endValue, startValue), maxTicks)>> :
                    startValue \in {dateToNumericValue(bounds.viewStart)},
                    endValue \in {dateToNumericValue(bounds.viewEnd)}}})

\* ------------------------------------------------------------------------
\* Stacking layout engine (features/timeline/utils/layout.ts)
\* ------------------------------------------------------------------------

\* the stack depth of the header comment of layout.ts (lines 10-11), which
\* MAX_LANES was raised from
MaxLanesBeforeIncrease == 12 - 4

MAX_LANES == 12
POINT_EVENT_WIDTH == Q(8, 1000)
TEXT_LABEL_WIDTH == Q(12, 100)
MIN_VISUAL_SPACING == Q(1, 100)

\* an overlap test that only sees a range that starts before the other one
rangesOverlapOneSided(aStart, aEnd, bStart, bEnd) ==
    LET paddedAStart == RSub(aStart, MIN_VISUAL_SPACING)
        paddedAEnd == RAdd(aEnd, MIN_VISUAL_SPACING)
        paddedBStart == RSub(bStart, MIN_VISUAL_SPACING)
    IN  RLt(paddedAStart, paddedBStart) /\ RGt(paddedAEnd, paddedBStart)

rangesOverlapOrTooClose(aStart, aEnd, bStart, bEnd) ==
    LET paddedAStart == RSub(aStart, MIN_VISUAL_SPACING)
        paddedAEnd == RAdd(aEnd, MIN_VISUAL_SPACING)
        paddedBStart == RSub(bStart, MIN_VISUAL_SPACING)
        paddedBEnd == RAdd(bEnd, MIN_VISUAL_SPACING)
    IN  RLt(paddedAStart, paddedBEnd) /\ RGt(paddedAEnd, paddedBStart)

\* the comparator without the tie-break on the type
compareStartOnly(a, b) ==
    RSub(dateToNumericValue(a.startDate), dateToNumericValue(b.startDate))[1]

\* the comparator of the sort: negative, zero or positive
compareEvents(a, b) ==
    LET aStart == dateToNumericValue(a.startDate)
        bStart == dateToNumericValue(b.startDate)
    IN  IF aStart # bStart THEN RSub(aStart, bStart)[1]
        ELSE IF a.type = "point" /\ b.type = "span" THEN -1
        ELSE IF a.type = "span" /\ b.type = "point" THEN 1
        ELSE 0

\* [...events].sort(compareEvents): Array.prototype.sort is stable, so an event
\* comes after the events that compare below it and after the earlier events
\* of the input that compare equal to it
sortRank(events, i) ==
    Cardinality({j \in 1..Len(events) :
                    \/ compareEvents(events[j], events[i]) < 0
                    \/ compareEvents(events[j], events[i]) = 0 /\ j < i}) + 1

SortEvents(events) ==
    [k \in 1..Len(events) |->
        events[CHOOSE i \in 1..Len(events) : sortRank(events, i) = k]]

\* event.type === 'span' && event.endDate ? getDateRangeWidth(...) : POINT_EVENT_WIDTH
eventWidth(event, bounds) ==
    IF event.type = "span" /\ HasEndDate(event)
    THEN getDateRangeWidth(event.startDate, event.endDate, bounds)
    ELSE POINT_EVENT_WIDTH

\* occupancies.some((occ) => rangesOverlapOrTooClose(rangeStart, rangeEnd, occ.start, occ.end))
hasOverlap(occupancies, rangeStart, rangeEnd) ==
    \E i \in 1..Len(occupancies) :
        rangesOverlapOrTooClose(rangeStart, rangeEnd,
                                occupancies[i].start, occupancies[i].end)

\* the search taking the highest lane that is free instead of the lowest
lastAvailableLane(occ, rangeStart, rangeEnd) ==
    LET free == {lane \in 0..(MAX_LANES - 1) :
                    ~hasOverlap(occ[lane + 1], rangeStart, rangeEnd)}
    IN  IF free = {} THEN -1
        ELSE CHOOSE lane \in free : \A l \in free : lane >= l

\* the search starting at the second lane
firstAvailableLaneFromSecond(occ, rangeStart, rangeEnd) ==
    LET free == {lane \in 1..(MAX_LANES - 1) :
                    ~hasOverlap(occ[lane + 1], rangeStart, rangeEnd)}
    IN  IF free = {} THEN -1
        ELSE CHOOSE lane \in free : \A l \in free : lane <= l

\* the search for the first available lane: the lowest lane none of whose
\* ranges overlaps [rangeStart, rangeEnd], or -1; occ[lane + 1] is
\* laneOccupancies[lane]
firstAvailableLane(occ, rangeStart, rangeEnd) ==
    LET free == {lane \in 0..(MAX_LANES - 1) :
                    ~hasOverlap(occ[lane + 1], rangeStart, rangeEnd)}
    IN  IF free = {} THEN -1
        ELSE CHOOSE lane \in free : \A l \in free : lane <= l

\* the end of an iteration: the range is recorded in the lane that was found
\* and the layout is pushed
pushLayout(acc, event, x, width, rangeStart, rangeEnd, assignedLane) ==
    [occ |-> IF assignedLane >= 0
             THEN [acc.occ EXCEPT ![assignedLane + 1] =
                      Append(@, [start |-> rangeStart, end |-> rangeEnd])]
             ELSE acc.occ,
     layouts |-> Append(acc.layouts,
                    [eventId |-> event.id,
                     x |-> x,
                     width |-> width,
                     lane |-> IF assignedLane >= 0 THEN assignedLane ELSE MAX_LANES,
                     collapsed |-> assignedLane < 0])]

\* one iteration of the loop over sortedEvents; acc = [occ, layouts]
placeEvent(acc, event, bounds) ==
    The({pushLayout(acc, event, x, width, rangeStart, rangeEnd,
                    firstAvailableLane(acc.occ, rangeStart, rangeEnd)) :
            <<x, width, rangeStart, rangeEnd>> \in
                {<<x, width, x, RAdd(RAdd(x, width), TEXT_LABEL_WIDTH)>> :
                    x \in {getDatePosition(event.startDate, bounds)},
                    width \in {eventWidth(event, bounds)}}})

\* const laneOccupancies = Array.from({ length: MAX_LANES }, () => [])
emptyLanes == [lane \in 1..MAX_LANES |-> <<>>]

RECURSIVE layoutLoop(_, _, _)
layoutLoop(acc, sortedEvents, bounds) ==
    IF Len(sortedEvents) = 0 THEN acc
    ELSE layoutLoop(placeEvent(acc, Head(sortedEvents), bounds),
                    Tail(sortedEvents), bounds)

calculateEventLayout(events, bounds) ==
    IF Len(events) = 0 THEN <<>>
    ELSE layoutLoop([occ |-> emptyLanes, layouts |-> <<>>],
                    SortEvents(events), bounds).layouts

\* trackEvents: the track ids in order of first occurrence (the keys of the Map)
RECURSIVE trackIdsOf(_, _)
trackIdsOf(events, seen) ==
    IF Len(events) = 0 THEN seen
    ELSE trackIdsOf(Tail(events),
                    IF \E k \in 1..Len(seen) : seen[k] = Head(events).trackId
                    THEN seen ELSE Append(seen, Head(events).trackId))

\* trackEventList holding the events of every track
wholeEventList(events, trackId) == events

\* trackEvents.get(trackId): the events of one track, in input order
RECURSIVE trackEventList(_, _)
trackEventList(events, trackId) ==
    IF Len(events) = 0 THEN <<>>
    ELSE (IF Head(events).trackId = trackId THEN <<Head(events)>> ELSE <<>>)
         \o trackEventList(Tail(events), trackId)

\* trackEvents: Map<trackId, TimelineEvent[]>, as the sequence of its entries
\* in insertion order
RECURSIVE groupEntries(_, _)
groupEntries(trackIds, events) ==
    IF Len(trackIds) = 0 THEN <<>>
    ELSE <<[trackId |-> Head(trackIds),
            events |-> trackEventList(events, Head(trackIds))]>>
         \o groupEntries(Tail(trackIds), events)

groupByTrack(events) == groupEntries(trackIdsOf(events, <<>>), events)

RECURSIVE layoutEachTrack(_, _, _)
layoutEachTrack(trackIds, events, bounds) ==
    IF Len(trackIds) = 0 THEN <<>>
    ELSE <<[trackId |-> Head(trackIds),
            layouts |-> calculateEventLayout(trackEventList(events, Head(trackIds)),
                                             bounds)]>>
         \o layoutEachTrack(Tail(trackIds), events, bounds)

\* Map<trackId, EventLayout[]>, as the sequence of its entries in insertion order
calculateTrackLayouts(events, bounds) ==
    layoutEachTrack(trackIdsOf(events, <<>>), events, bounds)

\* Math.max() of no numbers
MinusInfinity == <<-1, 0>>

\* Math.max(...lanes) for the lanes of the layouts that are not collapsed
maxOfLanes(lanes) ==
    IF lanes = {} THEN MinusInfinity
    ELSE I(CHOOSE m \in lanes : \A l \in lanes : l <= m)

\* Math.min(MAX_LANES - 1, value), where value may be -Infinity
minWithLastLane(value) ==
    IF value = MinusInfinity THEN MinusInfinity
    ELSE RMin(I(MAX_LANES - 1), value)

getMaxLane(layouts) ==
    IF Len(layouts) = 0 THEN I(0)
    ELSE minWithLastLane(
             maxOfLanes({layouts[i].lane :
                            i \in {j \in 1..Len(layouts) : ~layouts[j].collapsed}}))

getCollapsedCount(layouts) ==
    Cardinality({i \in 1..Len(layouts) : layouts[i].collapsed})

\* calculateTrackHeight without the row of the collapsed indicator
heightOfLanesOnly(layouts, baseHeight, minHeight) ==
    IF getMaxLane(layouts) = MinusInfinity THEN minHeight
    ELSE RMax(minHeight, RMul(RAdd(getMaxLane(layouts), I(1)), baseHeight))

\* baseHeight is positive, so that -Infinity * baseHeight is -Infinity and
\* Math.max(minHeight, -Infinity) is minHeight
calculateTrackHeight(layouts, baseHeight, minHeight) ==
    LET maxLane == getMaxLane(layouts)
        hasCollapsed == getCollapsedCount(layouts) > 0
        collapsedHeight == IF hasCollapsed THEN baseHeight ELSE I(0)
    IN  IF maxLane = MinusInfinity THEN minHeight
        ELSE RMax(minHeight,
                  RAdd(RMul(RAdd(maxLane, I(1)), baseHeight), collapsedHeight))

\* ------------------------------------------------------------------------
\* Inputs
\* ------------------------------------------------------------------------

MaxEvents == 3
MaxCrowd == 15

PointEvent(id, trackId, startDate) ==
    [id |-> id, trackId |-> trackId, type |-> "point", startDate |-> startDate]

SpanEvent(id, trackId, startDate, endDate) ==
    [id |-> id, trackId |-> trackId, type |-> "span", startDate |-> startDate,
     endDate |-> endDate]

D_1939_09_01 == <<"1", "9", "3", "9", "-", "0", "9", "-", "0", "1">>
D_1939_09_06 == <<"1", "9", "3", "9", "-", "0", "9", "-", "0", "6">>
D_1947_08_15 == <<"1", "9", "4", "7", "-", "0", "8", "-", "1", "5">>
D_1941_12_07T == <<"1", "9", "4", "1", "-", "1", "2", "-", "0", "7", "T",
                   "0", "7", ":", "4", "8", ":", "0", "0", "Z">>
D_1939 == <<"1", "9", "3", "9">>
D_1939_01_01 == <<"1", "9", "3", "9", "-", "0", "1", "-", "0", "1">>
D_1949_12_31 == <<"1", "9", "4", "9", "-", "1", "2", "-", "3", "1">>
D_m0753_04_21 == <<"-", "0", "7", "5", "3", "-", "0", "4", "-", "2", "1">>
D_m0044_03_16 == <<"-", "0", "0", "4", "4", "-", "0", "3", "-", "1", "6">>
D_0476 == <<"0", "4", "7", "6">>
D_2024_03 == <<"2", "0", "2", "4", "-", "0", "3">>
D_m0001_11_21 == <<"-", "0", "0", "0", "1", "-", "1", "1", "-", "2", "1">>
D_0000_02_11 == <<"0", "0", "0", "0", "-", "0", "2", "-", "1", "1">>
D_1969_07_16 == <<"1", "9", "6", "9", "-", "0", "7", "-", "1", "6">>

\* events of the Second World War timeline (seeds/ww2.ts covers 1939 to 1947)
PoolWW2 ==
    { PointEvent(1, "A", D_1939_09_01),
      SpanEvent(2, "A", D_1939_09_01, D_1947_08_15),
      PointEvent(3, "B", D_1947_08_15),
      PointEvent(4, "A", D_1941_12_07T),
      PointEvent(5, "A", D_1939_09_06) }

\* events across BCE and CE, of year, month and day precision
PoolEpoch ==
    { PointEvent(11, "A", D_m0753_04_21),
      SpanEvent(12, "A", D_m0044_03_16, D_0476),
      PointEvent(13, "B", D_2024_03),
      PointEvent(14, "A", D_m0001_11_21),
      PointEvent(15, "B", D_0000_02_11),
      PointEvent(16, "B", D_1969_07_16) }

\* the lists of at most n distinct events of a pool
RECURSIVE ListsOver(_, _)
ListsOver(pool, n) ==
    IF n = 0 THEN {<<>>}
    ELSE LET shorter == ListsOver(pool, n - 1)
         IN  shorter \cup
             {Append(l, e) : <<l, e>> \in
                 {<<l, e>> \in shorter \X pool :
                     /\ Len(l) = n - 1
                     /\ \A i \in 1..Len(l) : l[i].id # e.id}}

\* n events of one track within a few days of each other
CrowdEvent(i) ==
    IF i % 3 = 0 THEN SpanEvent(100 + i, "A", D_1939_09_01, D_1939_09_06)
    ELSE IF i % 2 = 0 THEN PointEvent(100 + i, "A", D_1939_09_06)
    ELSE PointEvent(100 + i, "A", D_1939_09_01)

Crowd(n) == [i \in 1..n |-> CrowdEvent(i)]

D_m0100_06_01 == <<"-", "0", "1", "0", "0", "-", "0", "6", "-", "0", "1">>

\* events that all lie before year 0
Antiquity ==
    <<PointEvent(11, "A", D_m0753_04_21), PointEvent(17, "B", D_m0100_06_01)>>

\* n points of one instant, then a span and a point of a later instant that
\* overlap them all, the span given first
Pile(n) ==
    [i \in 1..n |-> PointEvent(200 + i, "A", D_1939_09_01)]
        \o <<SpanEvent(298, "A", D_1939_09_06, D_1939_09_06),
             PointEvent(299, "A", D_1939_09_06)>>

EventLists ==
    ListsOver(PoolWW2, MaxEvents) \cup ListsOver(PoolEpoch, MaxEvents)
        \cup {Crowd(n) : n \in 1..MaxCrowd}
        \cup {Pile(n) : n \in {MAX_LANES - 1, MAX_LANES}}
        \cup {Antiquity}

Bounds(dataStart, dataEnd, viewStart, viewEnd, snapUnit) ==
    [dataStart |-> dataStart, dataEnd |-> dataEnd, viewStart |-> viewStart,
     viewEnd |-> viewEnd, snapUnit |-> snapUnit]

\* bounds a caller passes that were not computed from the event list: a
\* window of eleven years and a window of zero width
GivenBounds ==
    { Bounds(D_1939_09_01, D_1947_08_15, D_1939_01_01, D_1949_12_31, "year"),
      Bounds(D_1939_09_01, D_1939_09_01, D_1939_09_01, D_1939_09_01, "day") }

D_0010_03_01 == <<"0", "0", "1", "0", "-", "0", "3", "-", "0", "1">>
D_0012_06_01 == <<"0", "0", "1", "2", "-", "0", "6", "-", "0", "1">>
D_0018_09_01 == <<"0", "0", "1", "8", "-", "0", "9", "-", "0", "1">>
D_0026_01_01 == <<"0", "0", "2", "6", "-", "0", "1", "-", "0", "1">>

\* the event lists the viewer is shown with, one after the other: no event,
\* one event, a span of years, the same span with an event added inside it,
\* and the span with a later event added outside it
ViewEventLists ==
    { <<>>,
      <<PointEvent(22, "A", D_0012_06_01)>>,
      <<PointEvent(21, "A", D_0010_03_01), PointEvent(23, "B", D_0018_09_01)>>,
      <<PointEvent(21, "A", D_0010_03_01), PointEvent(22, "A", D_0012_06_01),
        PointEvent(23, "B", D_0018_09_01)>>,
      <<PointEvent(21, "A", D_0010_03_01), PointEvent(23, "B", D_0018_09_01),
        PointEvent(24, "B", D_0026_01_01)>> }

\* the arguments the callers pass: a fraction of the window width for the
\* zoom anchor, a fraction of the window width to pan by (pan(2) is where
\* twenty presses of the arrow key, pan(0.1) each, lead), a zoom level, a date
\* to centre on
MaxSteps == 3
CenterXs == {I(0), Q(1, 2), I(1)}
PanDeltas == {Q(-1, 10), I(2)}
ZoomLevels == {Q(1, 20), I(2), I(1000)}
PanDates == {D_0026_01_01}

\* ------------------------------------------------------------------------
\* State
\* ------------------------------------------------------------------------

VARIABLES
    events,        \* timeline.events, the list given to the engine
    bounds,        \* TimelineBounds | null
    boundsFrom,    \* "none", "calculated" or "given"
    trackEvents,   \* calculateTrackLayouts: the events grouped by track
    sortedEvents,  \* calculateEventLayout: the events of the current track, sorted
    laneOccupancies, \* calculateEventLayout: the ranges placed in each lane
    layouts,       \* calculateEventLayout: the layouts of the current track so far
    trackLayouts,  \* calculateTrackLayouts: the layouts of the tracks done
    pc,            \* "input", "bounds", "tracks", "events" or "layouts";
                   \* "view" while the viewer runs
    viewport,      \* ViewportState of useTimelineViewport
    fullRange,     \* the fullRange memo of useTimelineViewport
    call,          \* the latest call on the viewport, with the state it was applied to
    steps,         \* number of calls made so far
    pending,       \* the queue of setViewport updates not yet applied by a render
    arg,           \* the arguments of a call of a function of the library
    result         \* what the call returned

layoutVars == <<trackEvents, sortedEvents, laneOccupancies, layouts, trackLayouts>>
viewVars == <<viewport, fullRange, call, steps, pending>>
fnVars == <<arg, result>>

vars == <<events, bounds, boundsFrom, layoutVars, pc, viewVars, fnVars>>

\* ------------------------------------------------------------------------
\* The engine applied to an event list
\* ------------------------------------------------------------------------

InitEngine ==
    /\ events \in EventLists
    /\ bounds = Null
    /\ boundsFrom = "none"
    /\ trackEvents = <<>>
    /\ sortedEvents = <<>>
    /\ laneOccupancies = emptyLanes
    /\ layouts = <<>>
    /\ trackLayouts = <<>>
    /\ pc = "input"
    /\ viewport = Null
    /\ fullRange = Null
    /\ call = [op |-> "none"]
    /\ steps = 0
    /\ pending = <<>>
    /\ arg = Null
    /\ result = Null

\* const bounds = useMemo(() => calculateTimelineBounds(timeline.events), ...)
CalculateBounds ==
    /\ pc = "input"
    /\ bounds' = calculateTimelineBounds(events)
    /\ boundsFrom' = "calculated"
    /\ pc' = "bounds"
    /\ UNCHANGED <<events, layoutVars, viewVars, fnVars>>

\* a caller passes bounds of its own to calculateTrackLayouts
SupplyBounds ==
    /\ pc = "input"
    /\ \E b \in GivenBounds : bounds' = b
    /\ boundsFrom' = "given"
    /\ pc' = "bounds"
    /\ UNCHANGED <<events, layoutVars, viewVars, fnVars>>

\* calculateTrackLayouts(timeline.events, bounds): group the events by track
GroupByTrack ==
    /\ pc = "bounds"
    /\ bounds # Null
    /\ trackEvents' = groupByTrack(events)
    /\ trackLayouts' = <<>>
    /\ pc' = "tracks"
    /\ UNCHANGED <<events, bounds, boundsFrom, sortedEvents, laneOccupancies, layouts,
                   viewVars, fnVars>>

\* the lanes as the call before left them
keptLaneOccupancies == laneOccupancies

\* const laneOccupancies = Array.from({ length: MAX_LANES }, () => [])
newLaneOccupancies == emptyLanes

\* calculateEventLayout for the next track: sort its events, empty the lanes
BeginTrack ==
    /\ pc = "tracks"
    /\ Len(trackLayouts) < Len(trackEvents)
    /\ sortedEvents' = SortEvents(trackEvents[Len(trackLayouts) + 1].events)
    /\ laneOccupancies' = newLaneOccupancies
    /\ layouts' = <<>>
    /\ pc' = "events"
    /\ UNCHANGED <<events, bounds, boundsFrom, trackEvents, trackLayouts, viewVars, fnVars>>

\* one iteration of the loop over sortedEvents
PlaceEvent ==
    /\ pc = "events"
    /\ Len(layouts) < Len(sortedEvents)
    /\ \E placed \in {placeEvent([occ |-> laneOccupancies, layouts |-> layouts],
                                   sortedEvents[Len(layouts) + 1], bounds)} :
           /\ laneOccupancies' = placed.occ
           /\ layouts' = placed.layouts
    /\ UNCHANGED <<events, bounds, boundsFrom, trackEvents, sortedEvents, trackLayouts,
                   pc, viewVars, fnVars>>

\* calculateEventLayout returns: trackLayouts.set(trackId, layouts)
EndTrack ==
    /\ pc = "events"
    /\ Len(layouts) = Len(sortedEvents)
    /\ trackLayouts' = Append(trackLayouts,
                          [trackId |-> trackEvents[Len(trackLayouts) + 1].trackId,
                           layouts |-> layouts])
    /\ pc' = "tracks"
    /\ UNCHANGED <<events, bounds, boundsFrom, trackEvents, sortedEvents,
                   laneOccupancies, layouts, viewVars, fnVars>>

\* calculateTrackLayouts returns
ReturnLayouts ==
    /\ pc = "tracks"
    /\ Len(trackLayouts) = Len(trackEvents)
    /\ pc' = "layouts"
    /\ UNCHANGED <<events, bounds, boundsFrom, layoutVars, viewVars, fnVars>>

NextEngine ==
    \/ CalculateBounds
    \/ SupplyBounds
    \/ GroupByTrack
    \/ BeginTrack
    \/ PlaceEvent
    \/ EndTrack
    \/ ReturnLayouts

SpecEngine == InitEngine /\ [][NextEngine]_vars

\* ------------------------------------------------------------------------
\* calculateTrackLayouts called again and again, as the memo of the canvas
\* does when the events or the bounds change
\* ------------------------------------------------------------------------

MaxCalls == 3

\* two tracks, a track with more events than lanes, and two points
CallEventLists ==
    { <<PointEvent(1, "A", D_1939_09_01), SpanEvent(2, "A", D_1939_09_01, D_1947_08_15),
        PointEvent(3, "B", D_1947_08_15)>>,
      Crowd(MAX_LANES + 1),
      <<PointEvent(5, "A", D_1939_09_06), PointEvent(4, "A", D_1941_12_07T)>> }

D_1949 == <<"1", "9", "4", "9">>
D_1959 == <<"1", "9", "5", "9">>

\* bounds the caller passes: a window of ten years and one of twenty
CallBounds ==
    { Bounds(D_1939_09_01, D_1947_08_15, D_1939, D_1949, "year"),
      Bounds(D_1939_09_01, D_1947_08_15, D_1939, D_1959, "year") }

\* the first call; result is the log of the calls that have returned
InitCalls ==
    /\ events \in CallEventLists
    /\ bounds = Null
    /\ boundsFrom = "none"
    /\ trackEvents = <<>>
    /\ sortedEvents = <<>>
    /\ laneOccupancies = emptyLanes
    /\ layouts = <<>>
    /\ trackLayouts = <<>>
    /\ pc = "input"
    /\ viewport = Null
    /\ fullRange = Null
    /\ call = [op |-> "calculateTrackLayouts", events |-> events]
    /\ steps = 1
    /\ pending = <<>>
    /\ arg = Null
    /\ result = <<>>

\* the call has returned and the caller calls again, with the same list or
\* another; what the call before left in memory stays where it is
CallAgain ==
    /\ pc = "layouts"
    /\ steps < MaxCalls
    /\ result' = Append(result, [events |-> events, bounds |-> bounds,
                                 layouts |-> trackLayouts])
    /\ \E list \in CallEventLists :
           /\ events' = list
           /\ call' = [op |-> "calculateTrackLayouts", events |-> list]
    /\ bounds' = Null
    /\ boundsFrom' = "none"
    /\ pc' = "input"
    /\ steps' = steps + 1
    /\ UNCHANGED <<layoutVars, viewport, fullRange, pending, arg>>

\* the bounds argument of the call
PassBounds ==
    /\ pc = "input"
    /\ \E b \in CallBounds : bounds' = b
    /\ boundsFrom' = "given"
    /\ pc' = "bounds"
    /\ UNCHANGED <<events, layoutVars, viewVars, fnVars>>

NextCalls ==
    \/ PassBounds
    \/ GroupByTrack
    \/ BeginTrack
    \/ PlaceEvent
    \/ EndTrack
    \/ ReturnLayouts
    \/ CallAgain

SpecCalls == InitCalls /\ [][NextCalls]_vars

\* ------------------------------------------------------------------------
\* Properties of the layout and of the bounds
\* ------------------------------------------------------------------------

\* the collision range of a layout: [x, x + width + 0.12]
CollisionStart(l) == l.x
CollisionEnd(l) == RAdd(RAdd(l.x, l.width), Q(12, 100))

\* the padded collision ranges of a and b overlap, with pad = 0.01
PaddedOverlap(a, b) ==
    /\ RLt(RSub(CollisionStart(a), Q(1, 100)), RAdd(CollisionEnd(b), Q(1, 100)))
    /\ RGt(RAdd(CollisionEnd(a), Q(1, 100)), RSub(CollisionStart(b), Q(1, 100)))

LayoutsDone == pc = "layouts"

\* the entries of the map of track layouts
Tracks == 1..Len(trackLayouts)
LayoutsOf(t) == trackLayouts[t].layouts

\* C1: in the result of calculateTrackLayouts no two distinct non-collapsed
\* layouts of the same track share a lane while their padded collision
\* ranges overlap
C1_NoOverlapInLane ==
    LayoutsDone =>
        \A t \in Tracks :
            \A i, j \in 1..Len(LayoutsOf(t)) :
                LET la == LayoutsOf(t)[i]
                    lb == LayoutsOf(t)[j]
                IN  (i # j /\ ~la.collapsed /\ ~lb.collapsed /\ la.lane = lb.lane)
                        => ~PaddedOverlap(la, lb)

\* a track with two layouts that share a lane, and two that overlap and are
\* in different lanes
C1_Witness ==
    /\ LayoutsDone
    /\ \E t \in Tracks :
        /\ \E i, j \in 1..Len(LayoutsOf(t)) :
            LET la == LayoutsOf(t)[i]
                lb == LayoutsOf(t)[j]
            IN  i # j /\ ~la.collapsed /\ ~lb.collapsed /\ la.lane = lb.lane
        /\ \E i, j \in 1..Len(LayoutsOf(t)) :
            LET la == LayoutsOf(t)[i]
                lb == LayoutsOf(t)[j]
            IN  i # j /\ PaddedOverlap(la, lb) /\ la.lane # lb.lane

\* every pair of layouts of the track overlaps
MutuallyOverlapping(ls) ==
    \A i, j \in 1..Len(ls) :
        LET la == ls[i]
            lb == ls[j]
        IN  i # j => PaddedOverlap(la, lb)

Placed(ls) == {i \in 1..Len(ls) : ~ls[i].collapsed}
Collapsed(ls) == {i \in 1..Len(ls) : ls[i].collapsed}

Min(a, b) == IF a < b THEN a ELSE b
Max(a, b) == IF a > b THEN a ELSE b

BoundsCalculated == pc = "bounds" /\ boundsFrom = "calculated" /\ Len(events) > 0

\* C3: for a non-empty event list the calculated bounds satisfy, by numeric
\* date value, viewStart <= dataStart <= dataEnd <= viewEnd
C3_BoundsContainData ==
    BoundsCalculated =>
        /\ bounds # Null
        /\ RLe(dateToNumericValue(bounds.viewStart), dateToNumericValue(bounds.dataStart))
        /\ RLe(dateToNumericValue(bounds.dataStart), dateToNumericValue(bounds.dataEnd))
        /\ RLe(dateToNumericValue(bounds.dataEnd), dateToNumericValue(bounds.viewEnd))

\* bounds of a list that starts before year 0 and is snapped to centuries
C3_Witness ==
    /\ BoundsCalculated
    /\ bounds.snapUnit = "century"
    /\ dateToNumericValue(bounds.dataStart)[1] < 0
    /\ dateToNumericValue(bounds.dataEnd)[1] > 0

D_1947_12_31 == <<"1", "9", "4", "7", "-", "1", "2", "-", "3", "1">>

\* C4: events whose earliest date is 1939-09-01 and latest date is
\* 1947-08-15 give viewStart = "1939-01-01", viewEnd = "1947-12-31" and
\* snapUnit = "year"
C4_WW2Bounds ==
    (BoundsCalculated /\ bounds.dataStart = D_1939_09_01 /\ bounds.dataEnd = D_1947_08_15)
        => /\ bounds.viewStart = D_1939_01_01
           /\ bounds.viewEnd = D_1947_12_31
           /\ bounds.snapUnit = "year"

\* ------------------------------------------------------------------------
\* Viewport controller (features/timeline/hooks/useTimelineViewport.ts)
\* ------------------------------------------------------------------------

DEFAULT_ZOOM == 1
ZOOM_STEP == Q(3, 2)
minZoom == Q(1, 10)
maxZoom == I(100)

ViewportState(viewStart, viewEnd, zoomLevel) ==
    [viewStart |-> viewStart, viewEnd |-> viewEnd, zoomLevel |-> zoomLevel]

initialState(b) ==
    IF b = Null THEN ViewportState(I(0), I(1), I(DEFAULT_ZOOM))
    ELSE ViewportState(dateToNumericValue(b.viewStart), dateToNumericValue(b.viewEnd),
                       I(DEFAULT_ZOOM))

\* dateToX of the hook, on the viewport state of the render
dateToX(date, v) ==
    LET range == RSub(v.viewEnd, v.viewStart)
    IN  IF range = I(0) THEN Q(1, 2)
        ELSE RDiv(RSub(dateToNumericValue(date), v.viewStart), range)

fullRangeMemo(b) ==
    IF b = Null THEN [start |-> I(0), end |-> I(1)]
    ELSE [start |-> dateToNumericValue(b.viewStart),
          end |-> dateToNumericValue(b.viewEnd)]

\* the bounds effect replacing the window by the new bounds
boundsEffectReplacing(prev, b) == IF b = Null THEN prev ELSE initialState(b)

\* the effect that runs when the bounds prop changes
boundsEffect(prev, b) ==
    IF b = Null THEN prev
    ELSE LET newStart == dateToNumericValue(b.viewStart)
             newEnd == dateToNumericValue(b.viewEnd)
             boundsExpanded == RLt(newStart, prev.viewStart) \/ RGt(newEnd, prev.viewEnd)
         IN  IF ~boundsExpanded THEN prev
             ELSE ViewportState(RMin(prev.viewStart, newStart),
                                RMax(prev.viewEnd, newEnd), I(DEFAULT_ZOOM))

zoomInUpdate(prev, full, centerX) ==
    LET newZoom == RMin(RMul(prev.zoomLevel, ZOOM_STEP), maxZoom)
        range == RSub(prev.viewEnd, prev.viewStart)
        center == RAdd(prev.viewStart, RMul(centerX, range))
        newRange == RDiv(RSub(full.end, full.start), newZoom)
        newStart == RSub(center, RMul(centerX, newRange))
        newEnd == RAdd(center, RMul(RSub(I(1), centerX), newRange))
    IN  ViewportState(RMax(RSub(full.start, newRange), newStart),
                      RMin(RAdd(full.end, newRange), newEnd), newZoom)

\* zoomOut anchored at the middle of the window whatever centerX is
zoomOutAtMiddle(prev, full, centerX) ==
    LET newZoom == RMax(RDiv(prev.zoomLevel, ZOOM_STEP), minZoom)
        center == RDiv(RAdd(prev.viewStart, prev.viewEnd), I(2))
        newRange == RDiv(RSub(full.end, full.start), newZoom)
    IN  ViewportState(RSub(center, RDiv(newRange, I(2))),
                      RAdd(center, RDiv(newRange, I(2))), newZoom)

\* zoomOut lowering the zoom level and leaving the window as it is
zoomOutKeepingWindow(prev, full, centerX) ==
    [prev EXCEPT !.zoomLevel = RMax(RDiv(prev.zoomLevel, ZOOM_STEP), minZoom)]

zoomOutUpdate(prev, full, centerX) ==
    LET newZoom == RMax(RDiv(prev.zoomLevel, ZOOM_STEP), minZoom)
        range == RSub(prev.viewEnd, prev.viewStart)
        center == RAdd(prev.viewStart, RMul(centerX, range))
        newRange == RDiv(RSub(full.end, full.start), newZoom)
        newStart == RSub(center, RMul(centerX, newRange))
        newEnd == RAdd(center, RMul(RSub(I(1), centerX), newRange))
    IN  ViewportState(newStart, newEnd, newZoom)

\* zoomTo with the requested level taken as it is
zoomToUnclamped(prev, full, level, centerX) ==
    LET range == RSub(prev.viewEnd, prev.viewStart)
        center == RAdd(prev.viewStart, RMul(centerX, range))
        newRange == RDiv(RSub(full.end, full.start), level)
        newStart == RSub(center, RMul(centerX, newRange))
        newEnd == RAdd(center, RMul(RSub(I(1), centerX), newRange))
    IN  ViewportState(newStart, newEnd, level)

zoomToUpdate(prev, full, level, centerX) ==
    LET clampedLevel == RMax(minZoom, RMin(maxZoom, level))
        range == RSub(prev.viewEnd, prev.viewStart)
        center == RAdd(prev.viewStart, RMul(centerX, range))
        newRange == RDiv(RSub(full.end, full.start), clampedLevel)
        newStart == RSub(center, RMul(centerX, newRange))
        newEnd == RAdd(center, RMul(RSub(I(1), centerX), newRange))
    IN  ViewportState(newStart, newEnd, clampedLevel)

\* resetZoom to the window of a viewer without bounds
resetZoomToDefault(full) == ViewportState(I(0), I(1), I(DEFAULT_ZOOM))

resetZoomUpdate(full) == ViewportState(full.start, full.end, I(DEFAULT_ZOOM))

panUpdate(prev, deltaX) ==
    LET range == RSub(prev.viewEnd, prev.viewStart)
        delta == RMul(deltaX, range)
    IN  [prev EXCEPT !.viewStart = RAdd(prev.viewStart, delta),
                     !.viewEnd = RAdd(prev.viewEnd, delta)]

panToUpdate(prev, date) ==
    LET targetValue == dateToNumericValue(date)
        center == RDiv(RAdd(prev.viewStart, prev.viewEnd), I(2))
        delta == RSub(targetValue, center)
    IN  [prev EXCEPT !.viewStart = RAdd(prev.viewStart, delta),
                     !.viewEnd = RAdd(prev.viewEnd, delta)]

\* the viewer mounts: bounds from the events, the viewport from the bounds,
\* and the bounds effect runs once
Init ==
    /\ events \in ViewEventLists
    /\ bounds = calculateTimelineBounds(events)
    /\ boundsFrom = "calculated"
    /\ trackEvents = <<>>
    /\ sortedEvents = <<>>
    /\ laneOccupancies = emptyLanes
    /\ layouts = <<>>
    /\ trackLayouts = <<>>
    /\ pc = "view"
    /\ viewport = boundsEffect(initialState(bounds), bounds)
    /\ fullRange = fullRangeMemo(bounds)
    /\ call = [op |-> "mount"]
    /\ steps = 0
    /\ pending = <<>>
    /\ arg = Null
    /\ result = Null

Called(op, args) == 
    /\ call' = [op |-> op, args |-> args, prev |-> viewport, prevBounds |-> bounds]
    /\ steps' = steps + 1

ZoomIn ==
    /\ pc = "view" /\ steps < MaxSteps
    /\ \E centerX \in CenterXs :
        /\ viewport' = zoomInUpdate(viewport, fullRange, centerX)
        /\ Called("zoomIn", [centerX |-> centerX])
    /\ UNCHANGED <<events, bounds, boundsFrom, layoutVars, pc, fullRange, pending, fnVars>>

ZoomOut ==
    /\ pc = "view" /\ steps < MaxSteps
    /\ \E centerX \in CenterXs :
        /\ viewport' = zoomOutUpdate(viewport, fullRange, centerX)
        /\ Called("zoomOut", [centerX |-> centerX])
    /\ UNCHANGED <<events, bounds, boundsFrom, layoutVars, pc, fullRange, pending, fnVars>>

ZoomTo ==
    /\ pc = "view" /\ steps < MaxSteps
    /\ \E level \in ZoomLevels, centerX \in {Q(1, 2)} :
        /\ viewport' = zoomToUpdate(viewport, fullRange, level, centerX)
        /\ Called("zoomTo", [level |-> level, centerX |-> centerX])
    /\ UNCHANGED <<events, bounds, boundsFrom, layoutVars, pc, fullRange, pending, fnVars>>

ResetZoom ==
    /\ pc = "view" /\ steps < MaxSteps
    /\ viewport' = resetZoomUpdate(fullRange)
    /\ Called("resetZoom", [none |-> TRUE])
    /\ UNCHANGED <<events, bounds, boundsFrom, layoutVars, pc, fullRange, pending, fnVars>>

Pan ==
    /\ pc = "view" /\ steps < MaxSteps
    /\ \E deltaX \in PanDeltas :
        /\ viewport' = panUpdate(viewport, deltaX)
        /\ Called("pan", [deltaX |-> deltaX])
    /\ UNCHANGED <<events, bounds, boundsFrom, layoutVars, pc, fullRange, pending, fnVars>>

PanTo ==
    /\ pc = "view" /\ steps < MaxSteps
    /\ \E date \in PanDates :
        /\ viewport' = panToUpdate(viewport, date)
        /\ Called("panTo", [date |-> date])
    /\ UNCHANGED <<events, bounds, boundsFrom, layoutVars, pc, fullRange, pending, fnVars>>

\* timeline.events changes: the bounds memo is recomputed and, the bounds
\* prop being a new object, the bounds effect runs
EventsChange ==
    /\ pc = "view" /\ steps < MaxSteps
    /\ \E list \in ViewEventLists :
        /\ events' = list
        /\ bounds' = calculateTimelineBounds(list)
        /\ fullRange' = fullRangeMemo(bounds')
        /\ viewport' = boundsEffect(viewport, bounds')
        /\ Called("bounds", [events |-> list])
    /\ UNCHANGED <<boundsFrom, layoutVars, pc, pending, fnVars>>

Next == ZoomIn \/ ZoomOut \/ ZoomTo \/ ResetZoom \/ Pan \/ PanTo \/ EventsChange

Spec == Init /\ [][Next]_vars

\* ------------------------------------------------------------------------
\* Properties of the viewport
\* ------------------------------------------------------------------------

\* the last call of the viewer was op
Did(op) == pc = "view" /\ call.op = op

\* the window of the whole bounds
BoundsWindow(b) ==
    [start |-> dateToNumericValue(b.viewStart), end |-> dateToNumericValue(b.viewEnd)]

\* C5: whatever zooms and pans came before, resetZoom leaves the state at
\* viewStart = numeric(bounds.viewStart), viewEnd = numeric(bounds.viewEnd),
\* zoomLevel = 1
C5_ResetZoomRestoresBounds ==
    (Did("resetZoom") /\ bounds # Null) =>
        /\ viewport.viewStart = BoundsWindow(bounds).start
        /\ viewport.viewEnd = BoundsWindow(bounds).end
        /\ viewport.zoomLevel = I(1)

\* resetZoom after zooms and pans that left another window at another level
C5_Witness ==
    /\ Did("resetZoom")
    /\ bounds # Null
    /\ steps = MaxSteps
    /\ call.prev.zoomLevel # I(1)
    /\ call.prev.viewStart # BoundsWindow(bounds).start
    /\ call.prev.viewEnd # BoundsWindow(bounds).end

\* C6: when new bounds are supplied the reconciled window contains the
\* extent of the new bounds and the previous window, and where the window
\* was extended zoomLevel is 1
C6_BoundsExtendWindow ==
    Did("bounds") =>
        /\ RLe(viewport.viewStart, call.prev.viewStart)
        /\ RGe(viewport.viewEnd, call.prev.viewEnd)
        /\ bounds # Null =>
              /\ RLe(viewport.viewStart, BoundsWindow(bounds).start)
              /\ RGe(viewport.viewEnd, BoundsWindow(bounds).end)
        /\ (viewport.viewStart # call.prev.viewStart
               \/ viewport.viewEnd # call.prev.viewEnd) => viewport.zoomLevel = I(1)

\* bounds that grew while the viewer was zoomed: the window is extended on
\* one side only and the zoom level returns to 1
C6_Witness ==
    /\ Did("bounds")
    /\ bounds # Null
    /\ call.prevBounds # Null
    /\ bounds # call.prevBounds
    /\ call.prev.zoomLevel # I(1)
    /\ viewport.viewStart = call.prev.viewStart
    /\ RGt(viewport.viewEnd, call.prev.viewEnd)
    /\ viewport.zoomLevel = I(1)

\* the extent of bounds b lies within the extent of bounds a
WithinBounds(b, a) ==
    /\ RGe(BoundsWindow(b).start, BoundsWindow(a).start)
    /\ RLe(BoundsWindow(b).end, BoundsWindow(a).end)

\* C7: when the bounds supplied again have not grown beyond the previous
\* bounds, viewStart, viewEnd and zoomLevel are left unchanged
C7_UngrownBoundsKeepView ==
    (Did("bounds") /\ bounds # Null /\ call.prevBounds # Null
        /\ WithinBounds(bounds, call.prevBounds)) => viewport = call.prev

\* C8: zoomLevel stays within [minZoom, maxZoom]; zoomIn multiplies and
\* zoomOut divides the level by 1.5 before clamping
C8_ZoomLevelClamped ==
    pc = "view" =>
        /\ RLe(minZoom, viewport.zoomLevel)
        /\ RLe(viewport.zoomLevel, maxZoom)
        /\ call.op = "zoomIn" =>
              viewport.zoomLevel = RMin(RMul(call.prev.zoomLevel, ZOOM_STEP), maxZoom)
        /\ call.op = "zoomOut" =>
              viewport.zoomLevel = RMax(RDiv(call.prev.zoomLevel, ZOOM_STEP), minZoom)

\* zoomIn at the greatest level, reached by a zoomTo beyond it
C8_Witness ==
    /\ Did("zoomIn")
    /\ call.prev.zoomLevel = maxZoom
    /\ viewport.zoomLevel = maxZoom

\* the date shown at the fraction centerX of the window
AnchorDate(v, centerX) ==
    RAdd(v.viewStart, RMul(centerX, RSub(v.viewEnd, v.viewStart)))

AnchorKept == AnchorDate(viewport, call.args.centerX) = AnchorDate(call.prev, call.args.centerX)

\* C9, as stated: zoomIn(centerX) and zoomOut(centerX) keep the anchor date
\* fixed on screen
C9_AnchorFixed == (Did("zoomIn") \/ Did("zoomOut")) => AnchorKept

\* newRange = fullRange / newZoom, of the zoom that was last made
NewRange == RDiv(RSub(fullRange.end, fullRange.start), viewport.zoomLevel)

\* the window zoomIn computes around the anchor lies within the full range
\* padded by one newRange on each side
ZoomInUnclamped ==
    LET centerX == call.args.centerX
        center == AnchorDate(call.prev, centerX)
        newStart == RSub(center, RMul(centerX, NewRange))
        newEnd == RAdd(center, RMul(RSub(I(1), centerX), NewRange))
    IN  /\ RGe(newStart, RSub(fullRange.start, NewRange))
        /\ RLe(newEnd, RAdd(fullRange.end, NewRange))

\* C9, amended: zoomOut(centerX) keeps the anchor date fixed on screen, and
\* zoomIn(centerX) keeps it fixed when it clamps neither edge of the window
C9_AnchorFixedUnlessClamped ==
    /\ Did("zoomOut") => AnchorKept
    /\ (Did("zoomIn") /\ ZoomInUnclamped) => AnchorKept

\* a zoomIn anchored at the right edge that clamps nothing and moves the left
\* edge, made at the level 2/3 that a zoomOut left
C9_Witness ==
    /\ Did("zoomIn")
    /\ call.args.centerX = I(1)
    /\ call.prev.zoomLevel = Q(2, 3)
    /\ ZoomInUnclamped
    /\ viewport.viewStart # call.prev.viewStart

\* C10: after zoomIn both viewStart and viewEnd lie in
\* [fullStart - newRange, fullEnd + newRange]
C10_ZoomInWithinPaddedRange ==
    Did("zoomIn") =>
        /\ RGe(viewport.viewStart, RSub(fullRange.start, NewRange))
        /\ RLe(viewport.viewStart, RAdd(fullRange.end, NewRange))
        /\ RGe(viewport.viewEnd, RSub(fullRange.start, NewRange))
        /\ RLe(viewport.viewEnd, RAdd(fullRange.end, NewRange))

\* the width of a window
WindowWidth(v) == RSub(v.viewEnd, v.viewStart)

\* C11: pan(deltaX) adds deltaX * (viewEnd - viewStart) to both viewStart and
\* viewEnd, a positive deltaX moving the window to later dates; panTo(date)
\* puts the midpoint of the window on numeric(date); both leave the width of
\* the window and zoomLevel unchanged
C11_PanTranslates ==
    /\ Did("pan") =>
          /\ viewport.viewStart =
                 RAdd(call.prev.viewStart, RMul(call.args.deltaX, WindowWidth(call.prev)))
          /\ viewport.viewEnd =
                 RAdd(call.prev.viewEnd, RMul(call.args.deltaX, WindowWidth(call.prev)))
          /\ RGt(call.args.deltaX, I(0)) =>
                 /\ RGt(viewport.viewStart, call.prev.viewStart)
                 /\ RGt(viewport.viewEnd, call.prev.viewEnd)
          /\ WindowWidth(viewport) = WindowWidth(call.prev)
          /\ viewport.zoomLevel = call.prev.zoomLevel
    /\ Did("panTo") =>
          /\ RDiv(RAdd(viewport.viewStart, viewport.viewEnd), I(2))
                 = dateToNumericValue(call.args.date)
          /\ WindowWidth(viewport) = WindowWidth(call.prev)
          /\ viewport.zoomLevel = call.prev.zoomLevel

\* ------------------------------------------------------------------------
\* The viewport with queued updates: setViewport queues an update, and the
\* next render applies the queued updates in the order they were queued
\* ------------------------------------------------------------------------

MaxQueued == 3

\* the arguments of the gestures that arrive together
QueuedCenterXs == {I(0), Q(1, 2)}
QueuedPanDeltas == {Q(-1, 10)}
QueuedZoomLevels == {I(2)}

\* an update queued by setViewport: the operation and its arguments, the
\* fullRange its callback closed over, and the viewport of the render in
\* which it was queued
Update(op, args) ==
    [op |-> op, args |-> args, full |-> fullRange, rendered |-> viewport]

\* every update computed from the viewport of the render it was queued in
applyToRendered(prev, u) ==
    CASE u.op = "zoomIn" -> zoomInUpdate(u.rendered, u.full, u.args.centerX)
      [] u.op = "zoomOut" -> zoomOutUpdate(u.rendered, u.full, u.args.centerX)
      [] u.op = "zoomTo" -> zoomToUpdate(u.rendered, u.full, u.args.level, u.args.centerX)
      [] u.op = "resetZoom" -> resetZoomUpdate(u.full)
      [] u.op = "pan" -> panUpdate(u.rendered, u.args.deltaX)
      [] u.op = "panTo" -> panToUpdate(u.rendered, u.args.date)

\* the update applied to the latest state: setViewport((prev) => ...) for
\* all but resetZoom, which passes the new state itself
applyUpdate(prev, u) ==
    CASE u.op = "zoomIn" -> zoomInUpdate(prev, u.full, u.args.centerX)
      [] u.op = "zoomOut" -> zoomOutUpdate(prev, u.full, u.args.centerX)
      [] u.op = "zoomTo" -> zoomToUpdate(prev, u.full, u.args.level, u.args.centerX)
      [] u.op = "resetZoom" -> resetZoomUpdate(u.full)
      [] u.op = "pan" -> panUpdate(prev, u.args.deltaX)
      [] u.op = "panTo" -> panToUpdate(prev, u.args.date)

\* the queue processed at a render: each update is given the state the
\* update before it returned
RECURSIVE processQueue(_, _)
processQueue(state, queue) ==
    IF Len(queue) = 0 THEN state
    ELSE The({processQueue(next, Tail(queue)) :
                 next \in {applyUpdate(state, Head(queue))}})

\* setViewport called from an event handler: the update is queued
Queue(u) ==
    /\ pc = "view" /\ steps < MaxQueued
    /\ pending' = Append(pending, u)
    /\ steps' = steps + 1
    /\ UNCHANGED <<events, bounds, boundsFrom, layoutVars, pc, viewport, fullRange,
                   call, fnVars>>

QueueZoomIn == \E centerX \in QueuedCenterXs : Queue(Update("zoomIn", [centerX |-> centerX]))

QueueZoomOut == \E centerX \in {I(1)} : Queue(Update("zoomOut", [centerX |-> centerX]))

QueueZoomTo ==
    \E level \in QueuedZoomLevels :
        Queue(Update("zoomTo", [level |-> level, centerX |-> Q(1, 2)]))

QueueResetZoom == Queue(Update("resetZoom", [none |-> TRUE]))

QueuePan == \E deltaX \in QueuedPanDeltas : Queue(Update("pan", [deltaX |-> deltaX]))

QueuePanTo == \E date \in PanDates : Queue(Update("panTo", [date |-> date]))

\* the component renders: the queued updates are applied, in order, to the
\* committed state
Render ==
    /\ pc = "view"
    /\ Len(pending) > 0
    /\ viewport' = processQueue(viewport, pending)
    /\ call' = [op |-> "render", prev |-> viewport, updates |-> pending]
    /\ pending' = <<>>
    /\ UNCHANGED <<events, bounds, boundsFrom, layoutVars, pc, fullRange, steps, fnVars>>

NextQueued ==
    \/ QueueZoomIn
    \/ QueueZoomOut
    \/ QueueZoomTo
    \/ QueueResetZoom
    \/ QueuePan
    \/ QueuePanTo
    \/ Render

SpecQueued == Init /\ [][NextQueued]_vars

\* the transition of one operation from the state v, as it is when the
\* operation is issued alone and committed before the next one is issued
Transition(v, u) ==
    CASE u.op = "zoomIn" -> zoomInUpdate(v, u.full, u.args.centerX)
      [] u.op = "zoomOut" -> zoomOutUpdate(v, u.full, u.args.centerX)
      [] u.op = "zoomTo" -> zoomToUpdate(v, u.full, u.args.level, u.args.centerX)
      [] u.op = "resetZoom" -> resetZoomUpdate(u.full)
      [] u.op = "pan" -> panUpdate(v, u.args.deltaX)
      [] u.op = "panTo" -> panToUpdate(v, u.args.date)

\* the states the operations us lead through, one after the other, from v
RECURSIVE OneByOne(_, _)
OneByOne(v, us) ==
    IF Len(us) = 0 THEN <<v>>
    ELSE <<v>> \o The({OneByOne(next, Tail(us)) : next \in {Transition(v, Head(us))}})

OnTrack(list, trackId) == SelectSeq(list, LAMBDA e : e.trackId = trackId)

TrackIdsIn(list) == {list[i].trackId : i \in 1..Len(list)}

\* the entry of trackId in the map a call returned
EntryOf(entries, trackId) ==
    The({entries[k].layouts : k \in {j \in 1..Len(entries) : entries[j].trackId = trackId}})

\* the lists of one or two events that agree with the current list on the
\* events of trackId and differ from it on other tracks
ListsAgreeingOn(trackId) ==
    {other \in ListsOver(PoolWW2, 2) \cup ListsOver(PoolEpoch, 2) :
        /\ other # events
        /\ OnTrack(other, trackId) = OnTrack(events, trackId)}

\* C18: for fixed bounds calculateTrackLayouts returns one entry per trackId
\* that has at least one event, equal to calculateEventLayout of that
\* track's events alone; events added to, removed from or changed on other
\* tracks leave the entry as it is
C18_TracksLaidOutAlone ==
    LayoutsDone =>
        /\ {trackLayouts[t].trackId : t \in Tracks} = TrackIdsIn(events)
        /\ Len(trackLayouts) = Cardinality(TrackIdsIn(events))
        /\ \A t \in Tracks :
               /\ LayoutsOf(t) =
                      calculateEventLayout(OnTrack(events, trackLayouts[t].trackId), bounds)
               /\ \A other \in ListsAgreeingOn(trackLayouts[t].trackId) :
                      EntryOf(calculateTrackLayouts(other, bounds), trackLayouts[t].trackId)
                          = LayoutsOf(t)

\* two tracks laid out, one of them shared with a list whose other track
\* holds different events
C18_Witness ==
    /\ LayoutsDone
    /\ Len(trackLayouts) = 2
    /\ Len(LayoutsOf(1)) = 1
    /\ Len(LayoutsOf(2)) = 2
    /\ \E other \in ListsAgreeingOn(trackLayouts[1].trackId) :
           /\ Len(other) = 2
           /\ Len(OnTrack(other, trackLayouts[2].trackId)) = 1
           /\ OnTrack(other, trackLayouts[2].trackId) # OnTrack(events, trackLayouts[2].trackId)

\* the calls of the log that were given the events and bounds of this one
SameInputs == {k \in 1..Len(result) : result[k].events = events /\ result[k].bounds = bounds}

\* C19: calculateTrackLayouts is a pure function: two calls with the same
\* events, in the same order, and the same bounds return equal results
\* whatever calls were made in between, and the call leaves the event list
\* it was given as it was
C19_SameInputsSameLayouts ==
    call.op = "calculateTrackLayouts" =>
        /\ events = call.events
        /\ LayoutsDone => \A k \in SameInputs : trackLayouts = result[k].layouts

\* the third call repeats the first after a call that collapsed events
C19_Witness ==
    /\ call.op = "calculateTrackLayouts"
    /\ LayoutsDone
    /\ Len(result) = 2
    /\ 1 \in SameInputs
    /\ 2 \notin SameInputs
    /\ \E i \in 1..Len(result[2].layouts[1].layouts) : result[2].layouts[1].layouts[i].collapsed
    /\ Len(trackLayouts) = 2
    /\ trackLayouts = result[1].layouts

\* the event of the list that a layout belongs to
EventOf(layout) == The({events[i] : i \in {j \in 1..Len(events) : events[j].id = layout.eventId}})

IsSpan(event) == event.type = "span" /\ HasEndDate(event)

\* C20: for a non-empty event list whose spans end no earlier than they
\* start, laid out within bounds = calculateTimelineBounds(events), every
\* layout has 0 <= x <= 1 and 0 <= width <= 1, and every span has
\* x + width <= 1
C20_LayoutsWithinUnitInterval ==
    (LayoutsDone /\ boundsFrom = "calculated") =>
        \A t \in Tracks :
            \A i \in 1..Len(LayoutsOf(t)) :
                /\ RGe(LayoutsOf(t)[i].x, I(0))
                /\ RLe(LayoutsOf(t)[i].x, I(1))
                /\ RGe(LayoutsOf(t)[i].width, I(0))
                /\ RLe(LayoutsOf(t)[i].width, I(1))
                /\ IsSpan(EventOf(LayoutsOf(t)[i])) =>
                       RLe(RAdd(LayoutsOf(t)[i].x, LayoutsOf(t)[i].width), I(1))

\* a span laid out strictly inside the window next to a point of its track
C20_Witness ==
    /\ LayoutsDone
    /\ boundsFrom = "calculated"
    /\ \E t \in Tracks :
           \E i, j \in 1..Len(LayoutsOf(t)) :
               /\ IsSpan(EventOf(LayoutsOf(t)[i]))
               /\ RGt(LayoutsOf(t)[i].x, I(0))
               /\ RGt(LayoutsOf(t)[i].width, Q(1, 2))
               /\ RLt(RAdd(LayoutsOf(t)[i].x, LayoutsOf(t)[i].width), I(1))
               /\ ~IsSpan(EventOf(LayoutsOf(t)[j]))
               /\ RGt(LayoutsOf(t)[j].x, LayoutsOf(t)[i].x)

\* layout i of ls overlaps an earlier layout of ls that was placed in lane
BlockedIn(ls, i, lane) ==
    \E j \in 1..(i - 1) :
        /\ ~ls[j].collapsed
        /\ ls[j].lane = lane
        /\ PaddedOverlap(ls[j], ls[i])

\* the ids of the events of the current list that are on a track
IdsOnTrack(trackId) == {events[i].id : i \in {j \in 1..Len(events) : events[j].trackId = trackId}}

InputIndex(layout) == CHOOSE i \in 1..Len(events) : events[i].id = layout.eventId

\* lp is the layout of a point event and ls that of a span event of the
\* same numeric startDate
PointAndSpanTogether(lp, ls) ==
    /\ EventOf(lp).type = "point"
    /\ EventOf(ls).type = "span"
    /\ dateToNumericValue(EventOf(lp).startDate) = dateToNumericValue(EventOf(ls).startDate)

\* C22: events are processed in ascending numeric startDate, points before
\* spans at the same instant: for a point and a span of one track with the
\* same numeric startDate, if both are placed the lane of the point is
\* below the lane of the span, and the span is not placed while the point
\* is collapsed
C22_PointBeforeSpan ==
    LayoutsDone =>
        \A t \in Tracks :
            \A i, j \in 1..Len(LayoutsOf(t)) :
                PointAndSpanTogether(LayoutsOf(t)[i], LayoutsOf(t)[j]) =>
                    /\ i < j
                    /\ (~LayoutsOf(t)[i].collapsed /\ ~LayoutsOf(t)[j].collapsed) =>
                           LayoutsOf(t)[i].lane < LayoutsOf(t)[j].lane
                    /\ LayoutsOf(t)[i].collapsed => LayoutsOf(t)[j].collapsed

\* a span given before a point of the same instant, and placed below it
C22_Witness ==
    /\ LayoutsDone
    /\ \E t \in Tracks :
           \E i, j \in 1..Len(LayoutsOf(t)) :
               /\ PointAndSpanTogether(LayoutsOf(t)[i], LayoutsOf(t)[j])
               /\ InputIndex(LayoutsOf(t)[j]) < InputIndex(LayoutsOf(t)[i])
               /\ LayoutsOf(t)[i].lane = 0
               /\ LayoutsOf(t)[j].lane = 1

\* the numeric values of every startDate and of every endDate of the list
DateValues ==
    {dateToNumericValue(events[i].startDate) : i \in 1..Len(events)}
        \cup {dateToNumericValue(events[i].endDate) :
                  i \in {j \in 1..Len(events) : HasEndDate(events[j])}}

Least(S) == CHOOSE v \in S : \A w \in S : RLe(v, w)
Greatest(S) == CHOOSE v \in S : \A w \in S : RGe(v, w)

\* range + 2 * max(0.05 * range, 0.1)
PaddedRangeOf(range) ==
    RAdd(range, RMul(I(2), IF RGt(RMul(Q(1, 20), range), Q(1, 10))
                           THEN RMul(Q(1, 20), range) ELSE Q(1, 10)))

\* the units whose threshold the padded range is below, coarser units first
UnitsAbove(paddedRange) ==
    (IF RLt(paddedRange, I(1000)) THEN <<"century">> ELSE <<>>)
        \o (IF RLt(paddedRange, I(100)) THEN <<"decade">> ELSE <<>>)
        \o (IF RLt(paddedRange, I(10)) THEN <<"year">> ELSE <<>>)
        \o (IF RLt(paddedRange, I(1)) THEN <<"month">> ELSE <<>>)
        \o (IF RLt(paddedRange, Q(1, 12)) THEN <<"day">> ELSE <<>>)

UnitFor(paddedRange) ==
    IF UnitsAbove(paddedRange) = <<>> THEN "millennium"
    ELSE UnitsAbove(paddedRange)[Len(UnitsAbove(paddedRange))]

PaddingOfData ==
    IF RGt(RMul(Q(1, 20), RSub(Greatest(DateValues), Least(DateValues))), Q(1, 10))
    THEN RMul(Q(1, 20), RSub(Greatest(DateValues), Least(DateValues)))
    ELSE Q(1, 10)

PaddedStartOfData == RSub(Least(DateValues), PaddingOfData)
PaddedEndOfData == RAdd(Greatest(DateValues), PaddingOfData)

\* the years of a decade, a century, a millennium
UnitSize(unit) ==
    CASE unit = "decade" -> 10
      [] unit = "century" -> 100
      [] unit = "millennium" -> 1000

\* C24: when snapUnit is decade, century or millennium, of U years,
\* viewStart is January 1 of the year U * floor(paddedStart / U) and viewEnd
\* is December 31 of the year U * ceil(paddedEnd / U) - 1, for negative as
\* well as positive years
C24_CoarseUnitsSnapToBoundaries ==
    (BoundsCalculated /\ bounds.snapUnit \in {"decade", "century", "millennium"}) =>
        /\ \E first \in {parseExtendedDate(bounds.viewStart)} :
               /\ first = DayDate(first.year, 1, 1)
               /\ first.year % UnitSize(bounds.snapUnit) = 0
               /\ RLe(I(first.year), PaddedStartOfData)
               /\ RLt(PaddedStartOfData, I(first.year + UnitSize(bounds.snapUnit)))
        /\ \E last \in {parseExtendedDate(bounds.viewEnd)} :
               /\ last = DayDate(last.year, 12, 31)
               /\ (last.year + 1) % UnitSize(bounds.snapUnit) = 0
               /\ RGe(I(last.year + 1), PaddedEndOfData)
               /\ RGt(PaddedEndOfData, I(last.year + 1 - UnitSize(bounds.snapUnit)))

\* bounds of centuries that start and end before year 0
C24_Witness ==
    /\ BoundsCalculated
    /\ bounds.snapUnit = "century"
    /\ parseExtendedDate(bounds.viewStart).year = -800
    /\ parseExtendedDate(bounds.viewEnd).year = -1

\* C15: calculateTimelineBounds returns null exactly when the event list is
\* empty; for a non-empty list of events with well-formed dates it returns a
\* bounds object
C15_NullExactlyForEmptyList ==
    (pc = "bounds" /\ boundsFrom = "calculated") =>
        /\ (bounds = Null) <=> (Len(events) = 0)
        /\ bounds # Null =>
               /\ DOMAIN bounds = {"dataStart", "dataEnd", "viewStart", "viewEnd", "snapUnit"}
               /\ bounds.snapUnit \in {"day", "month", "year", "decade", "century", "millennium"}
               /\ \A f \in {"dataStart", "dataEnd", "viewStart", "viewEnd"} : Len(bounds[f]) >= 4

\* the bounds of the empty list
C15_Witness ==
    /\ pc = "bounds"
    /\ boundsFrom = "calculated"
    /\ events = <<>>
    /\ bounds = Null

\* ------------------------------------------------------------------------
\* The functions of the library, each called on arguments of its own
\* ------------------------------------------------------------------------

RoundTripYears == {-12000, -753, -44, -1, 0, 1, 476, 2024, 12000}

RoundTripDates ==
    {YearDate(y) : y \in RoundTripYears}
        \cup {MonthDate(y, m) : y \in RoundTripYears, m \in {1, 9, 12}}
        \cup {DayDate(y, m, d) : y \in RoundTripYears, m \in {1, 12}, d \in {1, 10, 31}}
        \cup {DateTime(y, m, d, h, mi, sec) :
                  y \in RoundTripYears, m \in {1, 12}, d \in {1, 31}, h \in {0, 23},
                  mi \in {0, 59}, sec \in {0, 59}}

\* well-formed dates of every precision, before and after year 0, at the
\* turn of a month and at the turn of a year
OrderedYears == {-44, 2024, 2025}

OrderedDates ==
    {YearDate(y) : y \in OrderedYears \cup {476}}
        \cup {MonthDate(y, m) : y \in OrderedYears, m \in {1, 2, 12}}
        \cup {DayDate(y, m, d) : y \in OrderedYears, m \in {1, 2, 12}, d \in {1, 28}}
        \cup {DayDate(y, m, 31) : y \in OrderedYears, m \in {1, 12}}
        \cup {DateTime(y, m, d, h, mi, 0) :
                  y \in OrderedYears, m \in {1, 12}, d \in {1, 31}, h \in {0, 23},
                  mi \in {0, 59}}

\* dates to position, "1939" and "1939-01-01" being two strings of one
\* numeric value
PositionDates ==
    {D_1939, D_1939_01_01, D_1939_09_01, D_1941_12_07T, D_1949_12_31, D_m0044_03_16}

PositionBounds ==
    {Bounds(D_1939_09_01, D_1939_09_01, viewStart, viewEnd, "year") :
        viewStart \in PositionDates, viewEnd \in PositionDates}

\* windows of the viewport state, of zero width among them
PositionWindows ==
    {ViewportState(viewStart, viewEnd, I(1)) :
        viewStart \in {I(0), I(1939), Q(3879, 2)}, viewEnd \in {I(1), I(1939), Q(3879, 2)}}

PositionCalls ==
    {[fn |-> "getDatePosition", date |-> d, bounds |-> b] :
        d \in PositionDates, b \in PositionBounds}
        \cup {[fn |-> "getDateRangeWidth", startDate |-> d, endDate |-> e, bounds |-> b] :
                  d \in {D_1939, D_1939_09_01, D_m0044_03_16},
                  e \in {D_1939_09_01, D_1949_12_31}, b \in PositionBounds}
        \cup {[fn |-> "dateToX", date |-> d, viewport |-> v] :
                  d \in PositionDates, v \in PositionWindows}

D_1943 == <<"1", "9", "4", "3">>

\* bounds whose viewStart is before their viewEnd, of every snap unit
TickWindows ==
    {<<D_1939_01_01, D_1949_12_31>>, <<D_1939_09_01, D_1939_09_06>>,
     <<D_1939_09_06, D_1947_08_15>>, <<D_m0044_03_16, D_0476>>,
     <<D_m0753_04_21, D_2024_03>>, <<D_m0001_11_21, D_0000_02_11>>,
     <<D_1939_09_01, D_1941_12_07T>>, <<D_1939, D_1943>>}

TickBounds ==
    {Bounds(w[1], w[2], w[1], w[2], snapUnit) :
        w \in TickWindows,
        snapUnit \in {"day", "month", "year", "decade", "century", "millennium"}}

TickCalls ==
    {[fn |-> "generateAxisTicks", bounds |-> b, maxTicks |-> maxTicks] :
        b \in TickBounds, maxTicks \in {DEFAULT_MAX_TICKS, 4}}

MaxLayouts == 3
LANE_HEIGHT == 48
MIN_TRACK_HEIGHT == 80

\* lanes of layouts: the first, the second, one in the middle, the last, and
\* MAX_LANES, the lane of a collapsed layout
LayoutLanes == {0, 1, 5, MAX_LANES - 1, MAX_LANES}

LaneLists == UNION {[1..n -> LayoutLanes] : n \in 0..MaxLayouts}

\* EventLayout[] with the given lanes, collapsed where the lane is MAX_LANES
LayoutsAt(lanes) ==
    [i \in 1..Len(lanes) |->
        [eventId |-> i,
         x |-> Q(i, 10),
         width |-> POINT_EVENT_WIDTH,
         lane |-> lanes[i],
         collapsed |-> lanes[i] = MAX_LANES]]

\* the heights TimelineTrack passes, the defaults of the parameters, and a
\* minimum above every sum of lanes
TrackHeightCalls ==
    {[fn |-> "calculateTrackHeight", layouts |-> LayoutsAt(lanes),
      baseHeight |-> h[1], minHeight |-> h[2]] :
        lanes \in LaneLists,
        h \in {<<I(LANE_HEIGHT), I(MIN_TRACK_HEIGHT)>>, <<I(30), I(60)>>,
               <<I(30), I(700)>>}}

LibraryCalls ==
    {[fn |-> "roundTrip", date |-> d] : d \in RoundTripDates}
        \cup {[fn |-> "dateToNumericValue", a |-> a, b |-> b,
               aStr |-> formatExtendedDate(a), bStr |-> formatExtendedDate(b)] :
                  a \in OrderedDates, b \in OrderedDates}
        \cup PositionCalls
        \cup TickCalls
        \cup TrackHeightCalls

InitLibrary ==
    /\ events = <<>>
    /\ bounds = Null
    /\ boundsFrom = "none"
    /\ trackEvents = <<>>
    /\ sortedEvents = <<>>
    /\ laneOccupancies = emptyLanes
    /\ layouts = <<>>
    /\ trackLayouts = <<>>
    /\ pc = "call"
    /\ viewport = Null
    /\ fullRange = Null
    /\ call = [op |-> "none"]
    /\ steps = 0
    /\ pending = <<>>
    /\ arg \in LibraryCalls
    /\ result = Null

Returned(value, at) ==
    /\ result' = value
    /\ pc' = at
    /\ UNCHANGED <<events, bounds, boundsFrom, layoutVars, viewVars, arg>>

\* formatExtendedDate(date)
FormatExtendedDate ==
    /\ pc = "call"
    /\ arg.fn = "roundTrip"
    /\ Returned([formatted |-> formatExtendedDate(arg.date)], "formatted")

\* parseExtendedDate of the string that formatExtendedDate returned
ParseExtendedDate ==
    /\ pc = "formatted"
    /\ Returned([formatted |-> result.formatted,
                 parsed |-> parseExtendedDate(result.formatted)], "returned")

\* dateToNumericValue(a) and dateToNumericValue(b)
DateToNumericValue ==
    /\ pc = "call"
    /\ arg.fn = "dateToNumericValue"
    /\ Returned([a |-> dateToNumericValue(arg.aStr), b |-> dateToNumericValue(arg.bStr)],
                "returned")

\* getDatePosition(date, bounds)
GetDatePosition ==
    /\ pc = "call"
    /\ arg.fn = "getDatePosition"
    /\ Returned(getDatePosition(arg.date, arg.bounds), "returned")

\* getDateRangeWidth(startDate, endDate, bounds)
GetDateRangeWidth ==
    /\ pc = "call"
    /\ arg.fn = "getDateRangeWidth"
    /\ Returned(getDateRangeWidth(arg.startDate, arg.endDate, arg.bounds), "returned")

\* dateToX(date) of a render whose viewport state is arg.viewport
DateToX ==
    /\ pc = "call"
    /\ arg.fn = "dateToX"
    /\ Returned(dateToX(arg.date, arg.viewport), "returned")

\* generateAxisTicks(bounds, _minTicks, maxTicks)
GenerateAxisTicks ==
    /\ pc = "call"
    /\ arg.fn = "generateAxisTicks"
    /\ Returned(generateAxisTicks(arg.bounds, arg.maxTicks), "returned")

\* TimelineTrack: calculateTrackHeight(layouts, LANE_HEIGHT, MIN_TRACK_HEIGHT)
\* and getCollapsedCount(layouts), with the getMaxLane the former calls
CalculateTrackHeight ==
    /\ pc = "call"
    /\ arg.fn = "calculateTrackHeight"
    /\ Returned([height |-> calculateTrackHeight(arg.layouts, arg.baseHeight,
                                                 arg.minHeight),
                 maxLane |-> getMaxLane(arg.layouts),
                 collapsedCount |-> getCollapsedCount(arg.layouts)],
                "returned")

NextLibrary ==
    \/ FormatExtendedDate
    \/ ParseExtendedDate
    \/ DateToNumericValue
    \/ GetDatePosition
    \/ GetDateRangeWidth
    \/ DateToX
    \/ GenerateAxisTicks
    \/ CalculateTrackHeight

SpecLibrary == InitLibrary /\ [][NextLibrary]_vars

\* the call of fn has returned
ReturnedFrom(fn) == pc = "returned" /\ arg.fn = fn

\* C13: for every date d that carries exactly the fields of its precision,
\* with any year, parseExtendedDate(formatExtendedDate(d)) equals d
C13_ParseFormatRoundTrip ==
    ReturnedFrom("roundTrip") => result.parsed = arg.date

\* the round trip of a datetime before year 0 with a second of 0
C13_Witness ==
    /\ ReturnedFrom("roundTrip")
    /\ arg.date.precision = "datetime"
    /\ arg.date.year < 0
    /\ arg.date.second = 0
    /\ result.formatted[1] = "-"
    /\ result.parsed.year = arg.date.year

\* the fields of a date in the order of the calendar, a field the precision
\* leaves out standing for the start of the period
Calendar(d) ==
    <<d.year, OrElse(d, "month", 1), OrElse(d, "day", 1), OrElse(d, "hour", 0),
      OrElse(d, "minute", 0)>>

\* a is chronologically earlier than b: year, month, day, hour and minute
\* compared in turn
Earlier(a, b) ==
    \E i \in 1..5 :
        /\ Calendar(a)[i] < Calendar(b)[i]
        /\ \A j \in 1..(i - 1) : Calendar(a)[j] = Calendar(b)[j]

\* C14: dateToNumericValue is strictly monotonic with chronological order:
\* for two well-formed dates a and b of any precision and any sign of year,
\* a earlier than b gives dateToNumericValue(a) < dateToNumericValue(b)
C14_NumericValueMonotonic ==
    (ReturnedFrom("dateToNumericValue") /\ Earlier(arg.a, arg.b)) => RLt(result.a, result.b)

\* the window of the bounds has no width
ZeroRange(b) == dateToNumericValue(b.viewStart) = dateToNumericValue(b.viewEnd)

\* (value - start) / (end - start)
Interpolated(value, start, end) == RDiv(RSub(value, start), RSub(end, start))

\* C16: getDatePosition(d, bounds) is the linear interpolation of numeric(d)
\* between numeric(viewStart) and numeric(viewEnd), 0 for d equal to
\* viewStart and 1 for d equal to viewEnd; when viewStart and viewEnd have
\* the same numeric value it is 0.5 and getDateRangeWidth is 0, and dateToX
\* of the viewport is 0.5 for a window of zero width
C16_PositionInterpolates ==
    /\ (ReturnedFrom("getDatePosition") /\ ~ZeroRange(arg.bounds)) =>
           /\ result = Interpolated(dateToNumericValue(arg.date),
                                    dateToNumericValue(arg.bounds.viewStart),
                                    dateToNumericValue(arg.bounds.viewEnd))
           /\ arg.date = arg.bounds.viewStart => result = I(0)
           /\ arg.date = arg.bounds.viewEnd => result = I(1)
    /\ (ReturnedFrom("getDatePosition") /\ ZeroRange(arg.bounds)) => result = Q(1, 2)
    /\ (ReturnedFrom("getDateRangeWidth") /\ ZeroRange(arg.bounds)) => result = I(0)
    /\ (ReturnedFrom("dateToX") /\ arg.viewport.viewStart = arg.viewport.viewEnd) =>
           result = Q(1, 2)
    /\ (ReturnedFrom("dateToX") /\ arg.viewport.viewStart # arg.viewport.viewEnd) =>
           result = Interpolated(dateToNumericValue(arg.date), arg.viewport.viewStart,
                                 arg.viewport.viewEnd)

\* the position of a date in bounds whose viewStart and viewEnd are two
\* strings of one numeric value
C16_Witness ==
    /\ ReturnedFrom("getDatePosition")
    /\ arg.bounds.viewStart # arg.bounds.viewEnd
    /\ ZeroRange(arg.bounds)
    /\ dateToNumericValue(arg.date) # dateToNumericValue(arg.bounds.viewStart)
    /\ result = Q(1, 2)

\* value is a whole multiple of interval
MultipleOf(value, interval) == RDiv(value, interval)[2] = 1

\* the ticks ticks of a window from startValue to endValue, interval apart
TicksInWindow(ticks, startValue, endValue, interval) ==
    /\ \A i \in 1..Len(ticks) :
           /\ RGe(ticks[i].value, startValue)
           /\ RLe(ticks[i].value, endValue)
    /\ Len(ticks) > 0 =>
           /\ MultipleOf(ticks[1].value, interval)
           /\ RLt(RSub(ticks[1].value, interval), startValue)
    /\ Len(ticks) = 0 =>
           RLt(RMul(RFloor(RDiv(endValue, interval)), interval), startValue)
    /\ \A i \in 1..(Len(ticks) - 1) :
           RSub(ticks[i + 1].value, ticks[i].value) = interval

InitWithBounds == Init /\ bounds # Null

SpecWithBounds == InitWithBounds /\ [][Next]_vars

\* C26: in every state of the viewer, whatever zooms, pans and bounds updates
\* led to it from a mount with bounds, the window is well-formed:
\* viewStart < viewEnd
C26_WindowWellFormed ==
    (pc = "view" /\ bounds # Null) => RLt(viewport.viewStart, viewport.viewEnd)

LanesUsed(ls) == {ls[i].lane : i \in Placed(ls)}

WidthForZoom(v) ==
    RDiv(RSub(BoundsWindow(bounds).end, BoundsWindow(bounds).start), v.zoomLevel)

\* C27, as stated: in every state of the viewer the width of the window is the
\* width of the current bounds divided by zoomLevel
C27_WidthAgreesWithZoom ==
    (pc = "view" /\ bounds # Null) => WindowWidth(viewport) = WidthForZoom(viewport)

\* C27, amended: the width of the window is the width of the current bounds
\* divided by zoomLevel after the mount, zoomOut, zoomTo and resetZoom, and
\* after a zoomIn that clamps neither edge; a zoomIn that clamps an edge leaves
\* a narrower window; pan and panTo keep width and zoomLevel as they were
C27_WidthAgreesAfterZoom ==
    bounds # Null =>
        /\ (Did("mount") \/ Did("zoomOut") \/ Did("zoomTo") \/ Did("resetZoom")) =>
              WindowWidth(viewport) = WidthForZoom(viewport)
        /\ Did("zoomIn") =>
              /\ RLe(WindowWidth(viewport), WidthForZoom(viewport))
              /\ ZoomInUnclamped => WindowWidth(viewport) = WidthForZoom(viewport)
        /\ (Did("pan") \/ Did("panTo")) =>
              /\ WindowWidth(viewport) = WindowWidth(call.prev)
              /\ viewport.zoomLevel = call.prev.zoomLevel

\* a zoomOut from a window whose width did not agree with its zoom level: the
\* width agrees with the new zoom level, which is not 1
C27_Witness ==
    /\ Did("zoomOut")
    /\ bounds # Null
    /\ WindowWidth(call.prev) # WidthForZoom(call.prev)
    /\ viewport.zoomLevel # I(1)
    /\ WindowWidth(viewport) = WidthForZoom(viewport)

\* lanes of the layouts of the call that are not collapsed
OpenLanes ==
    {arg.layouts[i].lane :
        i \in {j \in 1..Len(arg.layouts) : ~arg.layouts[j].collapsed}}

CollapsedIn == {i \in 1..Len(arg.layouts) : arg.layouts[i].collapsed}

\* highest lane among the layouts that are not collapsed, at most 11; 0 for no
\* layouts
HighestLane ==
    IF Len(arg.layouts) = 0 THEN 0
    ELSE Min(MAX_LANES - 1, CHOOSE m \in OpenLanes : \A l \in OpenLanes : l <= m)

MaxTurns == 20

D_0000 == <<"0", "0", "0", "0">>

\* bounds whose viewStart is their viewEnd, and bounds whose viewEnd is before
\* their viewStart
DegenerateWindows ==
    {<<D_1939_09_01, D_1939_09_01>>, <<D_0000, D_0000>>,
     <<D_m0044_03_16, D_m0044_03_16>>,
     <<D_1949_12_31, D_1939_01_01>>, <<D_1939_09_06, D_1939_09_01>>,
     <<D_2024_03, D_m0753_04_21>>, <<D_0000_02_11, D_m0001_11_21>>}

TurnCalls ==
    TickCalls \cup
        {[fn |-> "generateAxisTicks",
          bounds |-> Bounds(w[1], w[2], w[1], w[2], snapUnit),
          maxTicks |-> maxTicks] :
            w \in DegenerateWindows,
            snapUnit \in {"day", "month", "year", "decade", "century", "millennium"},
            maxTicks \in {DEFAULT_MAX_TICKS, 4}}

InitTicks ==
    /\ events = <<>>
    /\ bounds = Null
    /\ boundsFrom = "none"
    /\ trackEvents = <<>>
    /\ sortedEvents = <<>>
    /\ laneOccupancies = emptyLanes
    /\ layouts = <<>>
    /\ trackLayouts = <<>>
    /\ pc = "call"
    /\ viewport = Null
    /\ fullRange = Null
    /\ call = [op |-> "none"]
    /\ steps = 0
    /\ pending = <<>>
    /\ arg \in TurnCalls
    /\ result = Null

\* generateAxisTicks up to the loop
TickInterval ==
    /\ pc = "call"
    /\ pc' = "loop"
    /\ call' = tickLocals(arg.bounds, arg.maxTicks)
    /\ UNCHANGED <<events, bounds, boundsFrom, layoutVars, viewport, fullRange,
                   steps, pending, fnVars>>

\* one turn of the loop: a tick is pushed and value += tickInterval; steps
\* counts the turns
TickTurn ==
    /\ pc = "loop"
    /\ lessOrEqual(call.value, call.endValue)
    /\ Len(call.ticks) < MaxTurns
    /\ call' = [call EXCEPT
                   !.ticks = Append(@, tickAt(call.value, call.labelPrecision)),
                   !.value = RAdd(@, call.tickInterval)]
    /\ steps' = steps + 1
    /\ UNCHANGED <<events, bounds, boundsFrom, layoutVars, pc, viewport, fullRange,
                   pending, fnVars>>

\* the loop condition fails: return ticks
TickReturn ==
    /\ pc = "loop"
    /\ ~lessOrEqual(call.value, call.endValue)
    /\ result' = call.ticks
    /\ pc' = "returned"
    /\ UNCHANGED <<events, bounds, boundsFrom, layoutVars, viewVars, arg>>

NextTicks == TickInterval \/ TickTurn \/ TickReturn

\* the call runs to its end without interruption: the loop is entered, a turn
\* that can be made is made, and a loop whose condition fails returns
SpecTicks ==
    /\ InitTicks
    /\ [][NextTicks]_vars
    /\ WF_pc(pc = "call" /\ pc' = "loop")
    /\ WF_steps(/\ pc = "loop"
                /\ lessOrEqual(call.value, call.endValue)
                /\ Len(call.ticks) < MaxTurns
                /\ steps' = steps + 1)
    /\ WF_pc(pc = "loop" /\ ~lessOrEqual(call.value, call.endValue) /\ pc' = "returned")

\* C30: generateAxisTicks returns for every bounds and snap unit; for bounds
\* with viewStart = viewEnd, whose tick interval is 0, and for bounds with
\* viewEnd < viewStart it returns no ticks; for viewStart < viewEnd it returns
\* at most maxTicks + 1 ticks
C30_TicksTerminate ==
    /\ <>(pc = "returned")
    /\ [](pc = "returned" =>
             /\ call.startValue = call.endValue =>
                   call.tickInterval = I(0) /\ Len(result) = 0
             /\ RLt(call.endValue, call.startValue) => Len(result) = 0
             /\ RLt(call.startValue, call.endValue) =>
                   Len(result) <= arg.maxTicks + 1)

\* a call with viewEnd before viewStart and a negative tick interval, which a
\* loop that started would never end with, has returned without ticks
C30_Witness ==
    /\ pc = "returned"
    /\ call.op = "generateAxisTicks"
    /\ RLt(call.endValue, call.startValue)
    /\ RLt(call.tickInterval, I(0))
    /\ Len(result) = 0

====
